---- MODULE Spec2Model ----
(***************************************************************************)
(* openclaw-secure: the secret lifecycle engine (store / restore / scrub / *)
(* check / migrate), the dot-path addressing it rests on, the start        *)
(* command that wraps restore -> spawn gateway -> scrub, secret discovery  *)
(* with its auto commands, and the command line's merge of preferences.    *)
(*                                                                         *)
(* JavaScript strings that the code takes apart (config paths, key names) *)
(* are sequences of one-character strings, so that split('.') and the      *)
(* camelCase-to-kebab conversion are computed, not assumed.  Secret values *)
(* are only ever compared, so they are plain strings.                      *)
(*                                                                         *)
(* A JSON value is a record [t, v, f]: t is its JavaScript type tag, v the *)
(* text of a string, f the members of an object (a function from keys to   *)
(* JSON values).  An array behaves, for getByPath and setByPath, as an     *)
(* object keyed by its decimal indices.                                    *)
(***************************************************************************)
EXTENDS Integers, Sequences, FiniteSets, TLC

VARIABLES
  disk,        \* the parsed content of the config file on disk
  bak,         \* the content of the .bak file (Undefined: no backup yet)
  backend,     \* the secret backend: a function from the keys it holds to values
  secretMap,   \* the SecretMap the operations are called with
  doc0,        \* the document the run started from
  backend0,    \* the backend the run started from
  last,        \* the last completed operation: what it returned and what it called
  prev,        \* the operation completed before the last one
  hist,        \* the names of the operations completed so far, in order
  pc,          \* cmdStart: position of the main flow
  config,      \* cmdStart: the main flow's in-memory document
  idx,         \* cmdStart: the entry restoreKeys is at
  gateway,     \* cmdStart: the spawned gateway ("none", "starting" or "healthy")
  sig,         \* cmdStart: position of the signal handler's cleanup
  sigConfig,   \* cmdStart: the cleanup scrub's in-memory document
  hook,        \* cmdStart: whether the signal arrived inside restoreKeys, and
               \* whether the cleanup scrub has written the document
  exited,      \* cmdStart: the exit status of the process ("none" while it runs)
  mig,         \* migrateKeys: where the running migration is, and its locals
  options,     \* discoverSecrets: the DiscoveryOptions it is called with
  collation,   \* the comparison String.prototype.localeCompare makes in this runtime
  argv,        \* cli: process.argv.slice(2)
  prefsFile,   \* cli: the content of ~/.openclaw-secure.json
  cli,         \* cli: where main is, and its locals
  call         \* a direct call of setByPath or pathToKeychainName: arguments and result

vars == <<disk, bak, backend, secretMap, doc0, backend0, last, prev, hist,
          pc, config, idx, gateway, sig, sigConfig, hook, exited, mig, options,
          collation,
          argv, prefsFile, cli, call>>

startVars == <<pc, config, idx, gateway, sig, sigConfig, hook, exited>>

inputVars == <<secretMap, doc0, backend0>>

toolVars == <<options, collation, argv, prefsFile, cli, call>>

----------------------------------------------------------------------------
(* Bounds of the model *)

\* the longest SecretMap drawn
MaxMapLen == 2

----------------------------------------------------------------------------
(* Constants of the program *)

KEYCHAIN_PLACEHOLDER == "[STORED_IN_KEYCHAIN]"

----------------------------------------------------------------------------
(* JSON values *)

NoMembers == [k \in {} |-> 0]

Undefined == [t |-> "undefined", v |-> "", f |-> NoMembers]
Null      == [t |-> "null",      v |-> "", f |-> NoMembers]
Num       == [t |-> "number",    v |-> "", f |-> NoMembers]
Str(s)    == [t |-> "string",    v |-> s,  f |-> NoMembers]
Obj(g)    == [t |-> "object",    v |-> "", f |-> g]

Placeholder == Str(KEYCHAIN_PLACEHOLDER)

\* names every object inherits from Object.prototype (two of them)
ObjectPrototypeKeys ==
  {<<"c", "o", "n", "s", "t", "r", "u", "c", "t", "o", "r">>,
   <<"t", "o", "S", "t", "r", "i", "n", "g">>}

\* the function an object inherits under such a name
Inherited(segment) == [t |-> "function", v |-> segment, f |-> NoMembers]

\* obj[segment]: an own property, else an inherited one, else undefined
Member(node, segment) ==
  IF segment \in DOMAIN node.f THEN node.f[segment]
  ELSE IF segment \in ObjectPrototypeKeys THEN Inherited(segment)
  ELSE Undefined

\* obj[segment] = value
WithMember(node, segment, value) ==
  Obj([k \in (DOMAIN node.f) \cup {segment} |->
         IF k = segment THEN value ELSE node.f[k]])

----------------------------------------------------------------------------
(* paths.ts *)

RECURSIVE SplitFrom(_, _)
SplitFrom(rest, current) ==
  IF rest = <<>> THEN <<current>>
  ELSE IF Head(rest) = "." THEN <<current>> \o SplitFrom(Tail(rest), <<>>)
  ELSE SplitFrom(Tail(rest), Append(current, Head(rest)))

\* path.split('.')
split(path) == SplitFrom(path, <<>>)

RECURSIVE GetFrom(_, _)
GetFrom(current, segments) ==
  IF segments = <<>> THEN current
  ELSE IF current.t # "object" THEN Undefined
  ELSE GetFrom(Member(current, Head(segments)), Tail(segments))

getByPath(obj, path) == GetFrom(obj, split(path))

RECURSIVE SetIn(_, _, _)
SetIn(current, segments, value) ==
  IF Len(segments) = 1 THEN WithMember(current, Head(segments), value)
  ELSE LET child == Member(current, Head(segments))
           next  == IF child.t # "object" THEN Obj(NoMembers) ELSE child
       IN WithMember(current, Head(segments), SetIn(next, Tail(segments), value))

setByPath(obj, path, value) == SetIn(obj, split(path), value)

----------------------------------------------------------------------------
(* config.ts *)

\* JSON.parse(JSON.stringify(data)): members whose value is undefined are dropped
RECURSIVE JsonRoundTrip(_)
JsonRoundTrip(node) ==
  IF node.t # "object" THEN node
  ELSE LET kept == {k \in DOMAIN node.f : node.f[k].t # "undefined"}
       IN Obj([k \in kept |-> JsonRoundTrip(node.f[k])])

readConfig(file) == file

\* copyFile(fullPath, fullPath + '.bak')
backupConfig(file) == file

\* what writeConfig leaves on disk and in the .bak file
writeConfig(file, data) == [disk |-> JsonRoundTrip(data), bak |-> backupConfig(file)]

----------------------------------------------------------------------------
(* backends/types.ts: the SecretBackend capability *)

\* a backend that holds no key
NoBackend == [k \in {} |-> ""]

BackendHas(b, key) == key \in DOMAIN b

\* get: null when the key is unknown
BackendGet(b, key) == IF key \in DOMAIN b THEN Str(b[key]) ELSE Null

\* set: create or overwrite
BackendSet(b, key, value) ==
  [k \in (DOMAIN b) \cup {key} |-> IF k = key THEN value ELSE b[k]]

\* delete: no-op when the key is absent
BackendDelete(b, key) == [k \in (DOMAIN b) \ {key} |-> b[k]]

----------------------------------------------------------------------------
(* discovery.ts: pathToKeychainName *)

LowerCase == <<"a", "b", "c", "d", "e", "f", "g", "h", "i", "j", "k", "l", "m",
               "n", "o", "p", "q", "r", "s", "t", "u", "v", "w", "x", "y", "z">>
UpperCase == <<"A", "B", "C", "D", "E", "F", "G", "H", "I", "J", "K", "L", "M",
               "N", "O", "P", "Q", "R", "S", "T", "U", "V", "W", "X", "Y", "Z">>
Digits == {"0", "1", "2", "3", "4", "5", "6", "7", "8", "9"}

IsLower(c) == \E n \in DOMAIN LowerCase : LowerCase[n] = c
IsUpper(c) == \E n \in DOMAIN UpperCase : UpperCase[n] = c

\* c.toLowerCase()
ToLower(c) ==
  IF IsUpper(c) THEN LowerCase[CHOOSE n \in DOMAIN UpperCase : UpperCase[n] = c] ELSE c

\* new Set(['channels', 'skills', 'tools', 'accounts', 'entries', 'web', 'media'])
skipPrefixes ==
  { <<"c", "h", "a", "n", "n", "e", "l", "s">>,
    <<"s", "k", "i", "l", "l", "s">>,
    <<"t", "o", "o", "l", "s">>,
    <<"a", "c", "c", "o", "u", "n", "t", "s">>,
    <<"e", "n", "t", "r", "i", "e", "s">>,
    <<"w", "e", "b">>,
    <<"m", "e", "d", "i", "a">> }

\* /^\d+$/.test(part)
IsArrayIndex(part) == part # <<>> /\ \A n \in DOMAIN part : part[n] \in Digits

RECURSIVE Kebab(_)
\* part.replace(/([a-z])([A-Z])/g, '$1-$2').toLowerCase()
Kebab(part) ==
  IF part = <<>> THEN <<>>
  ELSE IF Len(part) >= 2 /\ IsLower(part[1]) /\ IsUpper(part[2])
    THEN <<part[1], "-">> \o Kebab(Tail(part))
  ELSE <<ToLower(part[1])>> \o Kebab(Tail(part))

RECURSIVE KeptPartsKeepsIndices(_)
\* the loop over parts without the test for array indices
KeptPartsKeepsIndices(parts) ==
  IF parts = <<>> THEN <<>>
  ELSE IF Head(parts) \in skipPrefixes
    THEN KeptPartsKeepsIndices(Tail(parts))
  ELSE <<Kebab(Head(parts))>> \o KeptPartsKeepsIndices(Tail(parts))

RECURSIVE KeptParts(_)
\* the loop over parts: the kebab form of every part that is not skipped
KeptParts(parts) ==
  IF parts = <<>> THEN <<>>
  ELSE IF Head(parts) \in skipPrefixes \/ IsArrayIndex(Head(parts))
    THEN KeptParts(Tail(parts))
  ELSE <<Kebab(Head(parts))>> \o KeptParts(Tail(parts))

RECURSIVE Join(_)
\* result.join('-')
Join(result) ==
  IF result = <<>> THEN <<>>
  ELSE IF Len(result) = 1 THEN result[1]
  ELSE result[1] \o <<"-">> \o Join(Tail(result))

pathToKeychainName(configPath) == Join(KeptParts(split(configPath)))

----------------------------------------------------------------------------
(* patterns.ts *)

RECURSIVE Chars(_)
\* the characters of a string literal, as the sequence the model computes with
Chars(s) == IF s = "" THEN <<>> ELSE <<Head(s)>> \o Chars(Tail(s))

Lowers == {"a", "b", "c", "d", "e", "f", "g", "h", "i", "j", "k", "l", "m",
           "n", "o", "p", "q", "r", "s", "t", "u", "v", "w", "x", "y", "z"}
Uppers == {"A", "B", "C", "D", "E", "F", "G", "H", "I", "J", "K", "L", "M",
           "N", "O", "P", "Q", "R", "S", "T", "U", "V", "W", "X", "Y", "Z"}
Numerals == {"0", "1", "2", "3", "4", "5", "6", "7", "8", "9"}
AlphaNum == Lowers \cup Uppers \cup Numerals

\* s.toLowerCase()
LowerOf(s) == [n \in DOMAIN s |-> ToLower(s[n])]

\* s.endsWith(suffix)
EndsWith(s, suffix) ==
  Len(s) >= Len(suffix) /\ SubSeq(s, Len(s) - Len(suffix) + 1, Len(s)) = suffix

StartsWith(s, prefix) ==
  Len(s) >= Len(prefix) /\ SubSeq(s, 1, Len(prefix)) = prefix

SECRET_KEY_SUFFIXES ==
  {Chars("token"), Chars("apikey"), Chars("secret"), Chars("password"), Chars("credential")}

SECRET_KEY_EXACT ==
  {Chars("apiKey"), Chars("token"), Chars("password"), Chars("secret"), Chars("botToken"),
   Chars("appToken"), Chars("userToken"), Chars("webhookSecret"), Chars("signingSecret")}

SECRET_KEY_EXCLUDE ==
  {Chars("tokenFile"), Chars("mode"), Chars("tlsFingerprint"), Chars("sessionPrefix")}

MIN_SECRET_LENGTH == 16

KNOWN_SECRET_PATHS ==
  {Chars("gateway.auth.token"), Chars("gateway.auth.password"),
   Chars("gateway.remote.token"), Chars("gateway.remote.password"),
   Chars("tts.elevenlabs.apiKey"), Chars("tts.openai.apiKey"),
   Chars("tools.web.search.apiKey"), Chars("tools.web.search.perplexity.apiKey"),
   Chars("tools.web.search.grok.apiKey"), Chars("tools.web.fetch.firecrawl.apiKey"),
   Chars("tools.memorySearch.remote.apiKey")}

\* a path pattern, segment by segment: "+" stands for [^.]+ and "#" for \d+
Segments(pattern) == split(Chars(pattern))

\* KNOWN_SECRET_PATH_PATTERNS but the case-insensitive one
KNOWN_SECRET_PATH_PATTERNS ==
  {Segments("channels.+.botToken"), Segments("channels.+.appToken"),
   Segments("channels.+.userToken"), Segments("channels.+.token"),
   Segments("channels.+.webhookSecret"), Segments("channels.+.signingSecret"),
   Segments("channels.+.accounts.+.botToken"), Segments("channels.+.accounts.+.appToken"),
   Segments("channels.+.accounts.+.userToken"), Segments("channels.+.accounts.+.token"),
   Segments("channels.+.accounts.+.webhookSecret"), Segments("channels.+.accounts.+.signingSecret"),
   Segments("skills.entries.+.apiKey"),
   Segments("skills.entries.+.env.+"),
   Segments("tools.media.+.models.#.apiKey"), Segments("tools.media.models.#.apiKey"),
   Segments("models.providers.+.apiKey"),
   Segments("tools.memorySearch.remote.apiKey")}

\* pattern.test(path) for one of the patterns above
MatchesPathPattern(pat, path) ==
  LET segs == split(path)
  IN /\ Len(pat) = Len(segs)
     /\ \A n \in DOMAIN pat :
          IF pat[n] = <<"+">> THEN segs[n] # <<>>
          ELSE IF pat[n] = <<"#">>
            THEN segs[n] # <<>> /\ \A m \in DOMAIN segs[n] : segs[n][m] \in Numerals
          ELSE segs[n] = pat[n]

\* /^skills\.entries\.[^.]+\.config\..+(?:token|apikey|secret|password|credential)$/i
MatchesSkillConfigPattern(path) ==
  LET segs == split(path)
      head == Chars("skills.entries.") \o (IF Len(segs) >= 3 THEN segs[3] ELSE <<>>)
                \o Chars(".config.")
      rest == SubSeq(path, Len(head) + 1, Len(path))
  IN /\ Len(segs) >= 5
     /\ segs[3] # <<>>
     /\ Len(path) >= Len(head)
     /\ LowerOf(SubSeq(path, 1, Len(head))) = LowerOf(head)
     /\ \E suffix \in SECRET_KEY_SUFFIXES :
          EndsWith(LowerOf(rest), suffix) /\ Len(rest) > Len(suffix)

isKnownSecretPath(path) ==
  \/ path \in KNOWN_SECRET_PATHS
  \/ \E pattern \in KNOWN_SECRET_PATH_PATTERNS : MatchesPathPattern(pattern, path)
  \/ MatchesSkillConfigPattern(path)

\* patterns.ts isSecretKeyName without the exclusion test
isSecretKeyNameNoExclude(key) ==
  \/ key \in SECRET_KEY_EXACT
  \/ \E suffix \in SECRET_KEY_SUFFIXES : EndsWith(LowerOf(key), suffix)

isSecretKeyName(key) ==
  IF key \in SECRET_KEY_EXCLUDE THEN FALSE
  ELSE IF key \in SECRET_KEY_EXACT THEN TRUE
  ELSE \E suffix \in SECRET_KEY_SUFFIXES : EndsWith(LowerOf(key), suffix)

\* /^prefix[class]{min,max}$/ (max = 0: no upper limit)
MatchesShape(value, prefix, class, min, max) ==
  LET rest == SubSeq(value, Len(prefix) + 1, Len(value))
  IN /\ StartsWith(value, prefix)
     /\ \A n \in DOMAIN rest : rest[n] \in class
     /\ Len(rest) >= min
     /\ max = 0 \/ Len(rest) <= max

\* /^[0-9]+:[A-Za-z0-9_-]{30,}$/
MatchesTelegramShape(value) ==
  \E colon \in DOMAIN value :
    /\ value[colon] = ":"
    /\ colon > 1
    /\ \A n \in 1..(colon - 1) : value[n] \in Numerals
    /\ MatchesShape(SubSeq(value, colon + 1, Len(value)), <<>>,
                    AlphaNum \cup {"_", "-"}, 30, 0)

\* SECRET_VALUE_PATTERNS.some((pattern) => pattern.test(value))
MatchesSomeValuePattern(value) ==
  \/ MatchesShape(value, Chars("sk-"), AlphaNum \cup {"-", "_"}, 20, 0)
  \/ MatchesShape(value, Chars("sk-proj-"), AlphaNum \cup {"-", "_"}, 20, 0)
  \/ \E c \in {"b", "a", "p", "r", "s"} :
       MatchesShape(value, Chars("xox") \o <<c, "-">>, AlphaNum \cup {"-"}, 1, 0)
  \/ MatchesTelegramShape(value)
  \/ MatchesShape(value, Chars("ghp_"), AlphaNum, 20, 0)
  \/ MatchesShape(value, Chars("gho_"), AlphaNum, 20, 0)
  \/ MatchesShape(value, Chars("glpat-"), AlphaNum \cup {"-", "_"}, 20, 0)
  \/ MatchesShape(value, Chars("AKIA"), Uppers \cup Numerals, 16, 16)
  \/ MatchesShape(value, Chars("AIza"), AlphaNum \cup {"-", "_"}, 35, 35)
  \/ MatchesShape(value, <<>>, {"a", "b", "c", "d", "e", "f"} \cup Numerals, 32, 64)

matchesSecretValuePattern(value) ==
  IF Len(value) < MIN_SECRET_LENGTH THEN FALSE ELSE MatchesSomeValuePattern(value)

----------------------------------------------------------------------------
(* discovery.ts: matchesExcludePattern and discoverSecrets *)

RECURSIVE WildcardMatch(_, _)
\* new RegExp('^' + pattern.replace(/\./g, '\\.').replace(/\*/g, '.*') + '$').test(path)
WildcardMatch(pattern, path) ==
  IF pattern = <<>> THEN path = <<>>
  ELSE IF Head(pattern) = "*"
    THEN \E n \in 0..Len(path) :
           WildcardMatch(Tail(pattern), SubSeq(path, n + 1, Len(path)))
  ELSE /\ path # <<>>
       /\ Head(path) = Head(pattern)
       /\ WildcardMatch(Tail(pattern), Tail(path))

\* matchesExcludePattern without the wildcard branch: every pattern is compared as a path
matchesExcludePatternLiteral(path, patterns) ==
  \E pattern \in patterns :
    path = pattern \/ StartsWith(path, pattern \o <<".">>)

matchesExcludePattern(path, patterns) ==
  \E pattern \in patterns :
    IF \E n \in DOMAIN pattern : pattern[n] = "*"
      THEN WildcardMatch(pattern, path)
      ELSE path = pattern \/ StartsWith(path, pattern \o <<".">>)

RECURSIVE JoinDots(_)
\* path.join('.')
JoinDots(path) ==
  IF path = <<>> THEN <<>>
  ELSE IF Len(path) = 1 THEN path[1]
  ELSE path[1] \o <<".">> \o JoinDots(Tail(path))

RECURSIVE StringLeaves(_, _)
\* The string leaves walk reaches under obj, each with the path walk has built:
\* null, undefined and other leaves are passed over, objects and arrays are entered
StringLeaves(obj, path) ==
  IF obj.t = "object"
    THEN UNION {StringLeaves(obj.f[key], Append(path, key)) : key \in DOMAIN obj.f}
  ELSE IF obj.t = "string" THEN {[path |-> path, value |-> obj.v]}
  ELSE {}

DiscoveredSecret(fullPath, matchType, value) ==
  [configPath |-> fullPath, keychainName |-> pathToKeychainName(fullPath),
   matchType |-> matchType, value |-> value]

\* Classify with the test of the placeholder after the tests of the paths
ClassifyPathsFirst(leaf, opts) ==
  LET fullPath == JoinDots(leaf.path)
      key      == leaf.path[Len(leaf.path)]
  IN IF matchesExcludePattern(fullPath, opts.excludePaths) THEN "none"
     ELSE IF key \in SECRET_KEY_EXCLUDE THEN "none"
     ELSE IF Len(leaf.value) < MIN_SECRET_LENGTH THEN "none"
     ELSE IF fullPath \in opts.additionalPaths THEN "known-path"
     ELSE IF isKnownSecretPath(fullPath) THEN "known-path"
     ELSE IF leaf.value = KEYCHAIN_PLACEHOLDER THEN "none"
     ELSE IF isSecretKeyName(key) THEN "key-pattern"
     ELSE IF opts.includeUnknownPatterns /\ matchesSecretValuePattern(Chars(leaf.value))
       THEN "value-pattern"
     ELSE "none"

\* Classify with the test of the length after the tests of the paths
ClassifyLengthLate(leaf, opts) ==
  LET fullPath == JoinDots(leaf.path)
      key      == leaf.path[Len(leaf.path)]
  IN IF matchesExcludePattern(fullPath, opts.excludePaths) THEN "none"
     ELSE IF key \in SECRET_KEY_EXCLUDE THEN "none"
     ELSE IF leaf.value = KEYCHAIN_PLACEHOLDER THEN "none"
     ELSE IF fullPath \in opts.additionalPaths THEN "known-path"
     ELSE IF isKnownSecretPath(fullPath) THEN "known-path"
     ELSE IF Len(leaf.value) < MIN_SECRET_LENGTH THEN "none"
     ELSE IF isSecretKeyName(key) THEN "key-pattern"
     ELSE IF opts.includeUnknownPatterns /\ matchesSecretValuePattern(Chars(leaf.value))
       THEN "value-pattern"
     ELSE "none"

\* Classify with the test of the key name before the test of the known paths
ClassifyKeyFirst(leaf, opts) ==
  LET fullPath == JoinDots(leaf.path)
      key      == leaf.path[Len(leaf.path)]
  IN IF matchesExcludePattern(fullPath, opts.excludePaths) THEN "none"
     ELSE IF key \in SECRET_KEY_EXCLUDE THEN "none"
     ELSE IF leaf.value = KEYCHAIN_PLACEHOLDER THEN "none"
     ELSE IF Len(leaf.value) < MIN_SECRET_LENGTH THEN "none"
     ELSE IF fullPath \in opts.additionalPaths THEN "known-path"
     ELSE IF isSecretKeyName(key) THEN "key-pattern"
     ELSE IF isKnownSecretPath(fullPath) THEN "known-path"
     ELSE IF opts.includeUnknownPatterns /\ matchesSecretValuePattern(Chars(leaf.value))
       THEN "value-pattern"
     ELSE "none"

\* Classify with the test of the excluded keys left to isSecretKeyName
ClassifyNoKeyExclusion(leaf, opts) ==
  LET fullPath == JoinDots(leaf.path)
      key      == leaf.path[Len(leaf.path)]
  IN IF matchesExcludePattern(fullPath, opts.excludePaths) THEN "none"
     ELSE IF leaf.value = KEYCHAIN_PLACEHOLDER THEN "none"
     ELSE IF Len(leaf.value) < MIN_SECRET_LENGTH THEN "none"
     ELSE IF fullPath \in opts.additionalPaths THEN "known-path"
     ELSE IF isKnownSecretPath(fullPath) THEN "known-path"
     ELSE IF isSecretKeyName(key) THEN "key-pattern"
     ELSE IF opts.includeUnknownPatterns /\ matchesSecretValuePattern(Chars(leaf.value))
       THEN "value-pattern"
     ELSE "none"

\* walk on a string leaf, after the test of seenPaths: the matchType it is reported
\* with, "none" when it is passed over
Classify(leaf, opts) ==
  LET fullPath == JoinDots(leaf.path)
      key      == leaf.path[Len(leaf.path)]
  IN IF matchesExcludePattern(fullPath, opts.excludePaths) THEN "none"
     ELSE IF key \in SECRET_KEY_EXCLUDE THEN "none"
     ELSE IF leaf.value = KEYCHAIN_PLACEHOLDER THEN "none"
     ELSE IF Len(leaf.value) < MIN_SECRET_LENGTH THEN "none"
     ELSE IF fullPath \in opts.additionalPaths THEN "known-path"
     ELSE IF isKnownSecretPath(fullPath) THEN "known-path"
     ELSE IF isSecretKeyName(key) THEN "key-pattern"
     ELSE IF opts.includeUnknownPatterns /\ matchesSecretValuePattern(Chars(leaf.value))
       THEN "value-pattern"
     ELSE "none"

\* the characters of the keys of a document (letters, digits and - . : _) in the
\* order of their code units
CodeUnitOrder ==
  Chars("-.0123456789:ABCDEFGHIJKLMNOPQRSTUVWXYZ_abcdefghijklmnopqrstuvwxyz")

\* the same characters in the order of their primary weight in the root collation
\* of ICU: punctuation, digits, then the letters, a capital weighing as its small
\* letter
IcuOrder ==
  Chars("_-:.0123456789abcdefghijklmnopqrstuvwxyz")

CodeUnit(c) == CHOOSE n \in DOMAIN CodeUnitOrder : CodeUnitOrder[n] = c

PrimaryWeight(c) == CHOOSE n \in DOMAIN IcuOrder : IcuOrder[n] = ToLower(c)

\* at equal primary weight a small letter comes before its capital
CaseWeight(c) == IF c \in Uppers THEN 1 ELSE 0

\* the weight of a character in a comparison of the given kind
Weight(c, kind) ==
  IF kind = "primary" THEN PrimaryWeight(c)
  ELSE IF kind = "case" THEN CaseWeight(c)
  ELSE CodeUnit(c)

RECURSIVE CompareBy(_, _, _)
\* lexicographic comparison of two strings by a weight of their characters: -1, 0 or 1
CompareBy(a, b, kind) ==
  IF a = <<>> /\ b = <<>> THEN 0
  ELSE IF a = <<>> THEN -1
  ELSE IF b = <<>> THEN 1
  ELSE IF Weight(Head(a), kind) < Weight(Head(b), kind) THEN -1
  ELSE IF Weight(Head(a), kind) > Weight(Head(b), kind) THEN 1
  ELSE CompareBy(Tail(a), Tail(b), kind)

\* a.localeCompare(b): the collation of ICU where the runtime is built with Intl,
\* the comparison of code units where it is not
localeCompare(a, b, runtime) ==
  IF runtime = "icu"
    THEN IF CompareBy(a, b, "primary") # 0 THEN CompareBy(a, b, "primary")
         ELSE CompareBy(a, b, "case")
    ELSE CompareBy(a, b, "codeUnit")

RECURSIVE InsertSorted(_, _, _)
\* secret goes after every element that does not compare greater: the sort is stable
InsertSorted(sorted, secret, runtime) ==
  IF sorted = <<>> THEN <<secret>>
  ELSE IF localeCompare(Head(sorted).configPath, secret.configPath, runtime) <= 0
    THEN <<Head(sorted)>> \o InsertSorted(Tail(sorted), secret, runtime)
  ELSE <<secret>> \o sorted

RECURSIVE SortSecrets(_, _)
\* secrets.sort((a, b) => a.configPath.localeCompare(b.configPath))
SortSecrets(secrets, runtime) ==
  IF secrets = <<>> THEN <<>>
  ELSE InsertSorted(SortSecrets(SubSeq(secrets, 1, Len(secrets) - 1), runtime),
                    secrets[Len(secrets)], runtime)

RECURSIVE Walk(_, _, _, _)
\* walk over the string leaves in the order the keys of the document give: a leaf
\* whose path is in seenPaths is passed over, a classified one is pushed
Walk(visit, opts, seenPaths, secrets) ==
  IF visit = <<>> THEN secrets
  ELSE LET leaf      == Head(visit)
           fullPath  == JoinDots(leaf.path)
           matchType == Classify(leaf, opts)
       IN IF fullPath \in seenPaths \/ matchType = "none"
            THEN Walk(Tail(visit), opts, seenPaths, secrets)
            ELSE Walk(Tail(visit), opts, seenPaths \cup {fullPath},
                      Append(secrets, DiscoveredSecret(fullPath, matchType, leaf.value)))

\* the orders in which Object.entries can give the leaves of a document
VisitOrders(doc) ==
  LET leaves == StringLeaves(doc, <<>>)
  IN {visit \in [1..Cardinality(leaves) -> leaves] :
        \A m, n \in DOMAIN visit : m # n => visit[m] # visit[n]}

\* discoverSecrets leaving the secrets in the order of the walk
discoverSecretsUnsorted(visit, opts, runtime) ==
  Walk(visit, opts, {}, <<>>)

\* discoverSecrets(config, options), the leaves of config visited in the order visit
discoverSecrets(visit, opts, runtime) ==
  SortSecrets(Walk(visit, opts, {}, <<>>), runtime)

RECURSIVE discoveredToSecretMap(_)
discoveredToSecretMap(discovered) ==
  IF discovered = <<>> THEN <<>>
  ELSE <<[configPath |-> Head(discovered).configPath,
          keychainName |-> Head(discovered).keychainName]>>
         \o discoveredToSecretMap(Tail(discovered))

----------------------------------------------------------------------------
(* constants.ts: LEGACY_KEY_NAMES, in the order of Object.entries *)

WhisperPath ==
  <<"s", "k", "i", "l", "l", "s", ".", "e", "n", "t", "r", "i", "e", "s", ".",
    "o", "p", "e", "n", "a", "i", "-", "w", "h", "i", "s", "p", "e", "r", "-",
    "a", "p", "i", ".", "a", "p", "i", "K", "e", "y">>
WhisperOldName ==
  <<"w", "h", "i", "s", "p", "e", "r", "-", "a", "p", "i", "-", "k", "e", "y">>
BravePath ==
  <<"t", "o", "o", "l", "s", ".", "w", "e", "b", ".", "s", "e", "a", "r", "c", "h",
    ".", "a", "p", "i", "K", "e", "y">>
BraveOldName ==
  <<"b", "r", "a", "v", "e", "-", "s", "e", "a", "r", "c", "h", "-", "a", "p", "i",
    "-", "k", "e", "y">>

LEGACY_KEY_NAMES ==
  << [configPath |-> WhisperPath, oldName |-> WhisperOldName],
     [configPath |-> BravePath,   oldName |-> BraveOldName] >>

----------------------------------------------------------------------------
(* index.ts: the lifecycle engine *)

Call(method, key, value) == [m |-> method, key |-> key, value |-> value]

StoreResult(entry, stored, reason) ==
  [keychainName |-> entry.keychainName, configPath |-> entry.configPath,
   stored |-> stored, skipped |-> ~stored, reason |-> reason]

\* StoreEntry with the document scrubbed before backend.set reads the value to store
StoreEntryScrubsFirst(st, entry, fails) ==
  LET value    == getByPath(st.config, entry.configPath)
      scrubbed == setByPath(st.config, entry.configPath, Placeholder)
      sent     == getByPath(scrubbed, entry.configPath).v
  IN IF value.t \in {"undefined", "null"}
       THEN [st EXCEPT !.results = Append(@, StoreResult(entry, FALSE, "Value not found in config"))]
     ELSE IF value.t # "string"
       THEN [st EXCEPT !.results = Append(@, StoreResult(entry, FALSE, "Value is not a string"))]
     ELSE IF value.v = KEYCHAIN_PLACEHOLDER
       THEN [st EXCEPT !.results = Append(@, StoreResult(entry, FALSE, "Already stored in backend"))]
     ELSE IF fails
       THEN [st EXCEPT !.calls = Append(@, Call("set", entry.keychainName, sent)),
                       !.threw = TRUE]
     ELSE [st EXCEPT !.calls   = Append(@, Call("set", entry.keychainName, sent)),
                     !.backend = BackendSet(@, entry.keychainName, sent),
                     !.config  = scrubbed,
                     !.results = Append(@, StoreResult(entry, TRUE, ""))]

\* StoreEntry without the test for the placeholder
StoreEntryNoPlaceholderCheck(st, entry, fails) ==
  LET value == getByPath(st.config, entry.configPath)
  IN IF value.t \in {"undefined", "null"}
       THEN [st EXCEPT !.results = Append(@, StoreResult(entry, FALSE, "Value not found in config"))]
     ELSE IF value.t # "string"
       THEN [st EXCEPT !.results = Append(@, StoreResult(entry, FALSE, "Value is not a string"))]
     ELSE IF fails
       THEN [st EXCEPT !.calls = Append(@, Call("set", entry.keychainName, value.v)),
                       !.threw = TRUE]
     ELSE [st EXCEPT !.calls   = Append(@, Call("set", entry.keychainName, value.v)),
                     !.backend = BackendSet(@, entry.keychainName, value.v),
                     !.config  = setByPath(@, entry.configPath, Placeholder),
                     !.results = Append(@, StoreResult(entry, TRUE, ""))]

\* StoreEntry without the test for null
StoreEntryNullIsValue(st, entry, fails) ==
  LET value == getByPath(st.config, entry.configPath)
  IN IF value.t = "undefined"
       THEN [st EXCEPT !.results = Append(@, StoreResult(entry, FALSE, "Value not found in config"))]
     ELSE IF value.t # "string"
       THEN [st EXCEPT !.results = Append(@, StoreResult(entry, FALSE, "Value is not a string"))]
     ELSE IF value.v = KEYCHAIN_PLACEHOLDER
       THEN [st EXCEPT !.results = Append(@, StoreResult(entry, FALSE, "Already stored in backend"))]
     ELSE IF fails
       THEN [st EXCEPT !.calls = Append(@, Call("set", entry.keychainName, value.v)),
                       !.threw = TRUE]
     ELSE [st EXCEPT !.calls   = Append(@, Call("set", entry.keychainName, value.v)),
                     !.backend = BackendSet(@, entry.keychainName, value.v),
                     !.config  = setByPath(@, entry.configPath, Placeholder),
                     !.results = Append(@, StoreResult(entry, TRUE, ""))]

\* One iteration of storeKeys' loop on entry i.  st.threw: backend.set has thrown.
\* failAt is the entry at which backend.set throws (0: it never does).
StoreEntry(st, entry, fails) ==
  LET value == getByPath(st.config, entry.configPath)
  IN IF value.t \in {"undefined", "null"}
       THEN [st EXCEPT !.results = Append(@, StoreResult(entry, FALSE, "Value not found in config"))]
     ELSE IF value.t # "string"
       THEN [st EXCEPT !.results = Append(@, StoreResult(entry, FALSE, "Value is not a string"))]
     ELSE IF value.v = KEYCHAIN_PLACEHOLDER
       THEN [st EXCEPT !.results = Append(@, StoreResult(entry, FALSE, "Already stored in backend"))]
     ELSE IF fails
       THEN [st EXCEPT !.calls = Append(@, Call("set", entry.keychainName, value.v)),
                       !.threw = TRUE]
     ELSE [st EXCEPT !.calls   = Append(@, Call("set", entry.keychainName, value.v)),
                     !.backend = BackendSet(@, entry.keychainName, value.v),
                     !.config  = setByPath(@, entry.configPath, Placeholder),
                     !.results = Append(@, StoreResult(entry, TRUE, ""))]

\* st.steps keeps, for each entry processed, the state the iteration left
Stepped(st) ==
  [st EXCEPT !.steps = Append(@, [config |-> st.config, backend |-> st.backend,
                                  ncalls |-> Len(st.calls)])]

RECURSIVE StoreLoop(_, _, _, _)
StoreLoop(st, map, i, failAt) ==
  IF i > Len(map) \/ st.threw THEN st
  ELSE StoreLoop(Stepped(StoreEntry(st, map[i], i = failAt)), map, i + 1, failAt)

\* storeKeys up to its writeConfig: the in-memory document, the backend, the results
storeKeys(file, map, b, failAt) ==
  StoreLoop([config |-> readConfig(file), backend |-> b, results |-> <<>>,
             calls |-> <<>>, threw |-> FALSE, steps |-> <<>>], map, 1, failAt)

\* RestoreEntry with the result of setByPath dropped
RestoreEntryDropsResult(st, entry) ==
  [st EXCEPT !.calls = Append(@, Call("get", entry.keychainName, ""))]

\* RestoreEntry without the test for null: an absent key blanks the field
RestoreEntryBlanks(st, entry) ==
  LET value == BackendGet(st.backend, entry.keychainName)
  IN [st EXCEPT !.calls  = Append(@, Call("get", entry.keychainName, "")),
                !.config = setByPath(@, entry.configPath, value)]

\* One iteration of restoreKeys' loop
RestoreEntry(st, entry) ==
  LET value == BackendGet(st.backend, entry.keychainName)
  IN [st EXCEPT !.calls  = Append(@, Call("get", entry.keychainName, "")),
                !.config = IF value.t # "null"
                             THEN setByPath(@, entry.configPath, value) ELSE @]

RECURSIVE RestoreLoop(_, _, _)
RestoreLoop(st, map, i) ==
  IF i > Len(map) THEN st
  ELSE RestoreLoop(RestoreEntry(st, map[i]), map, i + 1)

restoreKeys(file, map, b) ==
  RestoreLoop([config |-> readConfig(file), backend |-> b, calls |-> <<>>], map, 1)

\* ScrubEntry replacing strings only
ScrubEntryStringsOnly(cfg, entry) ==
  LET value == getByPath(cfg, entry.configPath)
  IN IF value.t = "string" /\ value # Placeholder
       THEN setByPath(cfg, entry.configPath, Placeholder)
       ELSE cfg

\* One iteration of scrubKeys' loop
ScrubEntry(cfg, entry) ==
  LET value == getByPath(cfg, entry.configPath)
  IN IF value.t # "undefined" /\ value # Placeholder
       THEN setByPath(cfg, entry.configPath, Placeholder)
       ELSE cfg

RECURSIVE ScrubLoop(_, _, _)
ScrubLoop(cfg, map, i) ==
  IF i > Len(map) THEN cfg
  ELSE ScrubLoop(ScrubEntry(cfg, map[i]), map, i + 1)

RECURSIVE ScrubLoopStale(_, _, _, _)
ScrubLoopStale(read, cfg, map, i) ==
  IF i > Len(map) THEN cfg
  ELSE LET value == getByPath(read, map[i].configPath)
       IN ScrubLoopStale(read,
                         IF value.t # "undefined" /\ value # Placeholder
                           THEN setByPath(read, map[i].configPath, Placeholder)
                           ELSE cfg,
                         map, i + 1)

\* scrubKeys with every entry applied to the document as read, not to the
\* document the earlier entries left
scrubKeysStale(file, map) == ScrubLoopStale(readConfig(file), readConfig(file), map, 1)

scrubKeys(file, map) == ScrubLoop(readConfig(file), map, 1)

KeyCheckResult(entry, exists) ==
  [keychainName |-> entry.keychainName, configPath |-> entry.configPath,
   exists |-> exists]

\* CheckEntry testing the value against undefined instead of null
CheckEntryUndefinedTest(st, entry) ==
  LET value == BackendGet(st.backend, entry.keychainName)
  IN [st EXCEPT !.calls   = Append(@, Call("get", entry.keychainName, "")),
                !.results = Append(@, KeyCheckResult(entry, value.t # "undefined"))]

\* One iteration of checkKeys' loop
CheckEntry(st, entry) ==
  LET value == BackendGet(st.backend, entry.keychainName)
  IN [st EXCEPT !.calls   = Append(@, Call("get", entry.keychainName, "")),
                !.results = Append(@, KeyCheckResult(entry, value.t # "null"))]

RECURSIVE CheckLoop(_, _, _)
CheckLoop(st, map, i) ==
  IF i > Len(map) THEN st
  ELSE CheckLoop(CheckEntry(st, map[i]), map, i + 1)

checkKeys(map, b) ==
  CheckLoop([backend |-> b, results |-> <<>>, calls |-> <<>>], map, 1)

----------------------------------------------------------------------------
(* The inputs the model draws *)

KeyA == <<"a">>
KeyB == <<"b">>

PathA  == <<"a">>
PathB  == <<"b">>
PathAB == <<"a", ".", "b">>

Paths == {PathA, PathB, PathAB}

KeyNames == {<<"k", "1">>, <<"k", "2">>}

Secrets == {"s1", "s2"}

\* what a backend may hold before the first command
BackendSecrets == {"s2"}

Leaves == {Str(s) : s \in Secrets} \cup {Placeholder, Num, Null}

\* objects with at most the member b
Inner == {Obj(NoMembers)} \cup {Obj([k \in {KeyB} |-> l]) : l \in Leaves}

\* { a: x, b: y }, either member possibly missing
DocOf(x, y) == JsonRoundTrip(Obj([k \in {KeyA, KeyB} |-> IF k = KeyA THEN x ELSE y]))

Docs == {DocOf(x, y) : x \in {Undefined} \cup Leaves \cup Inner,
                       y \in {Undefined, Str("s2"), Placeholder}}

Entries == [configPath : Paths, keychainName : KeyNames]

Maps == UNION {[1..n -> Entries] : n \in 0..MaxMapLen}

Backends == UNION {[S -> BackendSecrets] : S \in SUBSET KeyNames}

----------------------------------------------------------------------------
(* The lifecycle commands, one run after another *)

\* no signal has arrived
NoSignal == [inRestore |-> FALSE, wrote |-> FALSE]

Idle ==
  /\ pc = "idle" /\ config = Undefined /\ idx = 0 /\ gateway = "none"
  /\ sig = "none" /\ sigConfig = Undefined /\ hook = NoSignal /\ exited = "none"

\* discoverSecrets' default: options = {}
DefaultOptions ==
  [includeUnknownPatterns |-> FALSE, additionalPaths |-> {}, excludePaths |-> {}]

NoDiscovery == options = DefaultOptions /\ collation = "icu"

\* main has not been entered
CliIdle ==
  [pc |-> "idle", parsed |-> Undefined, prefs |-> Undefined, backendName |-> Undefined,
   backendOpts |-> Undefined]

NoCli == argv = <<>> /\ prefsFile = [t |-> "absent", v |-> "", f |-> NoMembers] /\ cli = CliIdle

\* no direct call of a pure function is being made
NoCall == call = [fn |-> "none", pc |-> "idle", obj |-> Undefined, path |-> <<>>,
                  value |-> Undefined, result |-> Undefined]

NotMigrating ==
  [pc |-> "idle", i |-> 0, value |-> "", results |-> <<>>, calls |-> <<>>,
   pre |-> NoBackend]

\* The record of a completed operation: its outcome, the backend calls it made, the
\* state each loop iteration left, the entry at which a backend call threw (0: none)
\* and the files and backend it started from.
Done(op, ok, results, calls, steps, failAt) ==
  [op |-> op, ok |-> ok, results |-> results, calls |-> calls, steps |-> steps,
   failAt |-> failAt, pre |-> [disk |-> disk, bak |-> bak, backend |-> backend]]

Init ==
  /\ disk \in Docs
  /\ bak = Undefined
  /\ backend \in Backends
  /\ secretMap \in Maps
  /\ doc0 = disk
  /\ backend0 = backend
  /\ last = Done("none", TRUE, <<>>, <<>>, <<>>, 0)
  /\ prev = last
  /\ hist = <<>>
  /\ Idle
  /\ mig = NotMigrating
  /\ NoDiscovery
  /\ NoCli
  /\ NoCall

\* a second command may follow the first
MayRun == Len(hist) <= 1

\* StoreKeys writing the document in a finally block, thrown or not
StoreKeysWritesAnyway(failAt) ==
  LET st == storeKeys(disk, secretMap, backend, failAt)
      w  == writeConfig(disk, st.config)
  IN /\ MayRun
     /\ (failAt # 0) = st.threw
     /\ backend' = st.backend
     /\ disk' = w.disk
     /\ bak'  = w.bak
     /\ last' = Done("store", ~st.threw, st.results, st.calls, st.steps, failAt)
     /\ prev' = last
     /\ hist' = Append(hist, IF st.threw THEN "storeFailed" ELSE "store")
     /\ UNCHANGED <<inputVars, toolVars, startVars, mig>>

\* storeKeys; backend.set throws at entry failAt (0: never)
StoreKeys(failAt) ==
  LET st == storeKeys(disk, secretMap, backend, failAt)
      w  == writeConfig(disk, st.config)
  IN /\ MayRun
     /\ (failAt # 0) = st.threw
     /\ backend' = st.backend
     /\ disk' = IF st.threw THEN disk ELSE w.disk
     /\ bak'  = IF st.threw THEN bak  ELSE w.bak
     /\ last' = Done("store", ~st.threw, st.results, st.calls, st.steps, failAt)
     /\ prev' = last
     /\ hist' = Append(hist, IF st.threw THEN "storeFailed" ELSE "store")
     /\ UNCHANGED <<inputVars, toolVars, startVars, mig>>

RestoreKeys ==
  LET st == restoreKeys(disk, secretMap, backend)
      w  == writeConfig(disk, st.config)
  IN /\ MayRun
     /\ disk' = w.disk
     /\ bak'  = w.bak
     /\ last' = Done("restore", TRUE, <<>>, st.calls, <<>>, 0)
     /\ prev' = last
     /\ hist' = Append(hist, "restore")
     /\ UNCHANGED <<backend, inputVars, toolVars, startVars, mig>>

ScrubKeys ==
  LET w == writeConfig(disk, scrubKeys(disk, secretMap))
  IN /\ MayRun
     /\ disk' = w.disk
     /\ bak'  = w.bak
     /\ last' = Done("scrub", TRUE, <<>>, <<>>, <<>>, 0)
     /\ prev' = last
     /\ hist' = Append(hist, "scrub")
     /\ UNCHANGED <<backend, inputVars, toolVars, startVars, mig>>

CheckKeys ==
  LET st == checkKeys(secretMap, backend)
  IN /\ MayRun
     /\ last' = Done("check", TRUE, st.results, st.calls, <<>>, 0)
     /\ prev' = last
     /\ hist' = Append(hist, "check")
     /\ UNCHANGED <<disk, bak, backend, inputVars, toolVars, startVars, mig>>

----------------------------------------------------------------------------
(* index.ts: migrateKeys, one step per awaited backend call *)

MigrateResult(entry, migrated, reason) ==
  [configPath |-> entry.configPath, oldName |-> entry.oldName,
   newName |-> pathToKeychainName(entry.configPath),
   migrated |-> migrated, reason |-> reason]

RECURSIVE SkipIdentical(_, _)
\* The loop from entry i up to its next await: entries whose old and new names are
\* the same are reported and passed over.  Returns the entry reached and the results.
SkipIdentical(i, results) ==
  IF i > Len(LEGACY_KEY_NAMES) THEN [i |-> i, results |-> results]
  ELSE IF LEGACY_KEY_NAMES[i].oldName = pathToKeychainName(LEGACY_KEY_NAMES[i].configPath)
    THEN SkipIdentical(i + 1,
           Append(results, MigrateResult(LEGACY_KEY_NAMES[i], FALSE, "Names are identical")))
  ELSE [i |-> i, results |-> results]

\* The loop goes on at entry i: either it awaits backend.get(oldName) of the next
\* entry to migrate, or the entries are exhausted and migrateKeys returns.
MigrateContinue(i, results, calls, pre) ==
  LET at == SkipIdentical(i, results)
  IN IF at.i > Len(LEGACY_KEY_NAMES)
       THEN /\ mig' = NotMigrating
            /\ last' = [Done("migrate", TRUE, at.results, calls, <<>>, 0)
                          EXCEPT !.pre.backend = pre]
            /\ prev' = last
            /\ hist' = Append(hist, "migrate")
       ELSE /\ mig' = [pc |-> "getOld", i |-> at.i, value |-> "",
                       results |-> at.results, calls |-> calls, pre |-> pre]
            /\ UNCHANGED <<last, prev, hist>>

MigrateEntry == LEGACY_KEY_NAMES[mig.i]

MigrateNewName == pathToKeychainName(MigrateEntry.configPath)

\* migrateKeys is called and runs up to its first await
MigrateBegin ==
  /\ MayRun
  /\ mig.pc = "idle"
  /\ MigrateContinue(1, <<>>, <<>>, backend)
  /\ UNCHANGED <<disk, bak, backend, inputVars, toolVars, startVars>>

\* const value = await backend.get(oldName)
MigrateGetOld ==
  /\ mig.pc = "getOld"
  /\ LET value == BackendGet(backend, MigrateEntry.oldName)
         calls == Append(mig.calls, Call("get", MigrateEntry.oldName, ""))
     IN IF value.t = "null"
          THEN MigrateContinue(mig.i + 1,
                 Append(mig.results,
                        MigrateResult(MigrateEntry, FALSE, "No value found at old name")),
                 calls, mig.pre)
          ELSE /\ mig' = [mig EXCEPT !.pc = "getNew", !.value = value.v, !.calls = calls]
               /\ UNCHANGED <<last, prev, hist>>
  /\ UNCHANGED <<disk, bak, backend, inputVars, toolVars, startVars>>

\* MigrateGetNew without the test of existingNew: the old value is always written
MigrateGetNewIgnored ==
  /\ mig.pc = "getNew"
  /\ mig' = [mig EXCEPT !.pc = "set",
                        !.calls = Append(@, Call("get", MigrateNewName, ""))]
  /\ UNCHANGED <<disk, bak, backend, inputVars, toolVars, last, prev, hist, startVars>>

\* const existingNew = await backend.get(newName)
MigrateGetNew ==
  /\ mig.pc = "getNew"
  /\ LET existingNew == BackendGet(backend, MigrateNewName)
     IN mig' = [mig EXCEPT !.pc = IF existingNew.t # "null" THEN "deleteStale" ELSE "set",
                           !.calls = Append(@, Call("get", MigrateNewName, ""))]
  /\ UNCHANGED <<disk, bak, backend, inputVars, toolVars, last, prev, hist, startVars>>

\* the new name exists: await backend.delete(oldName)
MigrateDeleteStale ==
  /\ mig.pc = "deleteStale"
  /\ backend' = BackendDelete(backend, MigrateEntry.oldName)
  /\ MigrateContinue(mig.i + 1,
       Append(mig.results,
              MigrateResult(MigrateEntry, TRUE, "Deleted old (new already existed)")),
       Append(mig.calls, Call("delete", MigrateEntry.oldName, "")), mig.pre)
  /\ UNCHANGED <<disk, bak, inputVars, toolVars, startVars>>

\* MigrateSet without the write: the old name is deleted with nothing under the new
MigrateSetDropped ==
  /\ mig.pc = "set"
  /\ backend' = backend
  /\ mig' = [mig EXCEPT !.pc = "deleteOld"]
  /\ UNCHANGED <<disk, bak, inputVars, toolVars, last, prev, hist, startVars>>

\* await backend.set(newName, value)
MigrateSet ==
  /\ mig.pc = "set"
  /\ backend' = BackendSet(backend, MigrateNewName, mig.value)
  /\ mig' = [mig EXCEPT !.pc = "deleteOld",
                        !.calls = Append(@, Call("set", MigrateNewName, mig.value))]
  /\ UNCHANGED <<disk, bak, inputVars, toolVars, last, prev, hist, startVars>>

\* MigrateDeleteOld without the delete: the old name is kept
MigrateKeepsOld ==
  /\ mig.pc = "deleteOld"
  /\ backend' = backend
  /\ MigrateContinue(mig.i + 1,
       Append(mig.results, MigrateResult(MigrateEntry, TRUE, "")),
       mig.calls, mig.pre)
  /\ UNCHANGED <<disk, bak, inputVars, toolVars, startVars>>

\* MigrateDeleteOld deleting the new name instead of the old one
MigrateDeleteNew ==
  /\ mig.pc = "deleteOld"
  /\ backend' = BackendDelete(backend, MigrateNewName)
  /\ MigrateContinue(mig.i + 1,
       Append(mig.results, MigrateResult(MigrateEntry, TRUE, "")),
       Append(mig.calls, Call("delete", MigrateNewName, "")), mig.pre)
  /\ UNCHANGED <<disk, bak, inputVars, toolVars, startVars>>

\* await backend.delete(oldName)
MigrateDeleteOld ==
  /\ mig.pc = "deleteOld"
  /\ backend' = BackendDelete(backend, MigrateEntry.oldName)
  /\ MigrateContinue(mig.i + 1,
       Append(mig.results, MigrateResult(MigrateEntry, TRUE, "")),
       Append(mig.calls, Call("delete", MigrateEntry.oldName, "")), mig.pre)
  /\ UNCHANGED <<disk, bak, inputVars, toolVars, startVars>>

LegacyNames ==
  {LEGACY_KEY_NAMES[i].oldName : i \in DOMAIN LEGACY_KEY_NAMES}
    \cup {pathToKeychainName(LEGACY_KEY_NAMES[i].configPath) : i \in DOMAIN LEGACY_KEY_NAMES}

\* migrate is run on a backend that holds any of the legacy and the new names
InitMigrate ==
  /\ disk \in {DocOf(Placeholder, Undefined)}
  /\ bak = Undefined
  /\ backend \in UNION {[S -> Secrets] : S \in SUBSET LegacyNames}
  /\ secretMap = <<>>
  /\ doc0 = disk
  /\ backend0 = backend
  /\ last = Done("none", TRUE, <<>>, <<>>, <<>>, 0)
  /\ prev = last
  /\ hist = <<>>
  /\ Idle
  /\ mig = NotMigrating
  /\ NoDiscovery
  /\ NoCli
  /\ NoCall

NextMigrate ==
  \/ MigrateBegin
  \/ MigrateGetOld
  \/ MigrateGetNew
  \/ MigrateDeleteStale
  \/ MigrateSet
  \/ MigrateDeleteOld

SpecMigrate == InitMigrate /\ [][NextMigrate]_vars

\* migrateKeys is cut short at one of its awaits: the backend call throws (nothing
\* catches it, the promise rejects) or the process stops; the calls made stay made
MigrateStops ==
  /\ mig.pc # "idle"
  /\ mig' = NotMigrating
  /\ last' = [Done("migrate", FALSE, mig.results, mig.calls, <<>>, 0)
                EXCEPT !.pre.backend = mig.pre]
  /\ prev' = last
  /\ hist' = Append(hist, "migrateCut")
  /\ UNCHANGED <<disk, bak, backend, inputVars, toolVars, startVars>>

NextMigrateCut ==
  \/ NextMigrate
  \/ MigrateStops

\* migrate runs that may be cut short, and run again
SpecMigrateCut == InitMigrate /\ [][NextMigrateCut]_vars

----------------------------------------------------------------------------
(* cli.ts: cmdStart, one step per awaited call, and its signal handler *)

lifecycleVars == <<last, prev, hist, mig>>

\* cmdStart is called: the handlers are registered and restoreKeys awaits readConfig
StartBegin ==
  /\ pc = "idle" /\ exited = "none"
  /\ pc' = "restoreRead"
  /\ UNCHANGED <<disk, bak, backend, inputVars, toolVars, lifecycleVars,
                 config, idx, gateway, sig, sigConfig, exited, hook>>

\* restoreKeys: let config = await readConfig(configPath)
StartRestoreRead ==
  /\ pc = "restoreRead" /\ exited = "none"
  /\ config' = readConfig(disk)
  /\ idx' = 1
  /\ pc' = IF Len(secretMap) = 0 THEN "restoreWrite" ELSE "restoreGet"
  /\ UNCHANGED <<disk, bak, backend, inputVars, toolVars, lifecycleVars,
                 gateway, sig, sigConfig, exited, hook>>

\* restoreKeys: const value = await backend.get(entry.keychainName), and the entry's
\* setByPath
StartRestoreGet ==
  /\ pc = "restoreGet" /\ exited = "none"
  /\ config' = RestoreEntry([config |-> config, backend |-> backend, calls |-> <<>>],
                            secretMap[idx]).config
  /\ idx' = idx + 1
  /\ pc' = IF idx = Len(secretMap) THEN "restoreWrite" ELSE "restoreGet"
  /\ UNCHANGED <<disk, bak, backend, inputVars, toolVars, lifecycleVars,
                 gateway, sig, sigConfig, exited, hook>>

\* restoreKeys: await writeConfig(configPath, config)
StartRestoreWrite ==
  /\ pc = "restoreWrite" /\ exited = "none"
  /\ disk' = writeConfig(disk, config).disk
  /\ bak' = writeConfig(disk, config).bak
  /\ pc' = "spawn"
  /\ UNCHANGED <<backend, inputVars, toolVars, lifecycleVars,
                 config, idx, gateway, sig, sigConfig, exited, hook>>

\* spawn(...) of the detached gateway, then waitForGateway is awaited
StartSpawn ==
  /\ pc = "spawn" /\ exited = "none"
  /\ gateway' = "starting"
  /\ pc' = "wait"
  /\ UNCHANGED <<disk, bak, backend, inputVars, toolVars, lifecycleVars,
                 config, idx, sig, sigConfig, exited, hook>>

\* waitForGateway resolves (healthy) or rejects (timeout); cmdStart scrubs either
\* way, and scrubKeys awaits readConfig
StartWait(healthy) ==
  /\ pc = "wait" /\ exited = "none"
  /\ gateway' = IF healthy THEN "healthy" ELSE gateway
  /\ pc' = "scrubRead"
  /\ UNCHANGED <<disk, bak, backend, inputVars, toolVars, lifecycleVars,
                 config, idx, sig, sigConfig, exited, hook>>

\* scrubKeys: let config = await readConfig(configPath)
StartScrubRead ==
  /\ pc = "scrubRead" /\ exited = "none"
  /\ config' = readConfig(disk)
  /\ pc' = "scrubWrite"
  /\ UNCHANGED <<disk, bak, backend, inputVars, toolVars, lifecycleVars,
                 idx, gateway, sig, sigConfig, exited, hook>>

\* StartScrubWrite writing the document as it was read
StartScrubWriteAsRead ==
  /\ pc = "scrubWrite" /\ exited = "none"
  /\ disk' = writeConfig(disk, config).disk
  /\ bak' = writeConfig(disk, config).bak
  /\ pc' = "off"
  /\ UNCHANGED <<backend, inputVars, toolVars, lifecycleVars,
                 config, idx, gateway, sig, sigConfig, exited, hook>>

\* scrubKeys: the loop over the map and await writeConfig(configPath, config)
StartScrubWrite ==
  /\ pc = "scrubWrite" /\ exited = "none"
  /\ disk' = writeConfig(disk, ScrubLoop(config, secretMap, 1)).disk
  /\ bak' = writeConfig(disk, ScrubLoop(config, secretMap, 1)).bak
  /\ pc' = "off"
  /\ UNCHANGED <<backend, inputVars, toolVars, lifecycleVars,
                 config, idx, gateway, sig, sigConfig, exited, hook>>

\* process.off(...): the handlers are removed and cmdStart returns
StartDone ==
  /\ pc = "off" /\ exited = "none"
  /\ pc' = "done"
  /\ UNCHANGED <<disk, bak, backend, inputVars, toolVars, lifecycleVars,
                 config, idx, gateway, sig, sigConfig, exited, hook>>

\* restoreKeys or scrubKeys throws (readConfig, backend.get or writeConfig fails):
\* main's catch prints the error and calls process.exit(1)
StartThrows ==
  /\ pc \in {"restoreRead", "restoreGet", "restoreWrite", "scrubRead", "scrubWrite"}
  /\ exited = "none"
  /\ exited' = "1"
  /\ hist' = Append(hist, "startFailed")
  /\ UNCHANGED <<disk, bak, backend, inputVars, toolVars, last, prev, mig,
                 pc, config, idx, gateway, sig, sigConfig, hook>>

\* the positions of the main flow inside restoreKeys
RestorePositions == {"restoreRead", "restoreGet", "restoreWrite"}

\* the handlers are registered: from process.on to process.off
HandlersOn == pc \notin {"idle", "done"}

\* SIGINT or SIGTERM is delivered: onSignal calls cleanup, whose scrubKeys awaits
\* readConfig
Signal ==
  /\ HandlersOn /\ exited = "none" /\ sig = "none"
  /\ sig' = "read"
  /\ hook' = [inRestore |-> pc \in RestorePositions, wrote |-> FALSE]
  /\ UNCHANGED <<disk, bak, backend, inputVars, toolVars, lifecycleVars,
                 pc, config, idx, gateway, sigConfig, exited>>

\* cleanup's scrubKeys: let config = await readConfig(configPath)
CleanupRead ==
  /\ sig = "read" /\ exited = "none"
  /\ sigConfig' = readConfig(disk)
  /\ sig' = "write"
  /\ UNCHANGED <<disk, bak, backend, inputVars, toolVars, lifecycleVars,
                 pc, config, idx, gateway, exited, hook>>

\* cleanup's scrubKeys: the loop over the map and await writeConfig
CleanupWrite ==
  /\ sig = "write" /\ exited = "none"
  /\ disk' = writeConfig(disk, ScrubLoop(sigConfig, secretMap, 1)).disk
  /\ bak' = writeConfig(disk, ScrubLoop(sigConfig, secretMap, 1)).bak
  /\ sig' = "exit"
  /\ hook' = [hook EXCEPT !.wrote = TRUE]
  /\ UNCHANGED <<backend, inputVars, toolVars, lifecycleVars,
                 pc, config, idx, gateway, sigConfig, exited>>

\* cleanup's scrubKeys throws (readConfig or writeConfig fails): the catch swallows it
CleanupThrows ==
  /\ sig \in {"read", "write"} /\ exited = "none"
  /\ sig' = "exit"
  /\ UNCHANGED <<disk, bak, backend, inputVars, toolVars, lifecycleVars,
                 pc, config, idx, gateway, sigConfig, exited, hook>>

\* CleanupExit not waiting for cleanup to settle
CleanupExitEarly ==
  /\ sig \in {"read", "write", "exit"} /\ exited = "none"
  /\ exited' = "1"
  /\ UNCHANGED <<disk, bak, backend, inputVars, toolVars, lifecycleVars,
                 pc, config, idx, gateway, sig, sigConfig, hook>>

\* cleanup().finally(() => process.exit(1)): the process ends where it stands; the
\* detached gateway, if spawned, runs on
CleanupExit ==
  /\ sig = "exit" /\ exited = "none"
  /\ exited' = "1"
  /\ UNCHANGED <<disk, bak, backend, inputVars, toolVars, lifecycleVars,
                 pc, config, idx, gateway, sig, sigConfig, hook>>

NextStart ==
  \/ StartBegin
  \/ StartRestoreRead
  \/ StartRestoreGet
  \/ StartRestoreWrite
  \/ StartSpawn
  \/ \E healthy \in BOOLEAN : StartWait(healthy)
  \/ StartScrubRead
  \/ StartScrubWrite
  \/ StartDone
  \/ StartThrows
  \/ Signal
  \/ CleanupRead
  \/ CleanupWrite
  \/ CleanupThrows
  \/ CleanupExit

SpecStart == Init /\ [][NextStart]_vars

----------------------------------------------------------------------------
(* discoverSecrets applied to bounded documents and options *)

\* a document holds at most MaxLeaves leaves
MaxLeaves == 2

\* the paths a leaf can have, segment by segment; the last two join to the same
\* dotted path
LeafPaths ==
  {split(Chars("channels.dev.botToken")), split(Chars("channels.Prod.botToken")),
   split(Chars("skills.entries.s.env.tokenFile")), split(Chars("custom.field")),
   split(Chars("custom.webhookSecret")), split(Chars("custom.mode")),
   split(Chars("tools.media.models.0.apiKey")),
   split(Chars("tools.media.models.1.apiKey")),
   split(Chars("x.y.token")), <<Chars("x.y"), Chars("token")>>}

\* the values a leaf can have: the placeholder, strings of 15 and of 16 characters,
\* a string of the shape of an API key, and a number
LeafValues ==
  {Placeholder, Str("abcdefghijklmno"), Str("abcdefghijklmnop"),
   Str("sk-abcdefghijklmnopqrstuvwx"), Num}

RECURSIVE DocWith(_, _)
\* the document that holds the given leaves
DocWith(paths, valueOf) ==
  IF paths = {} THEN Obj(NoMembers)
  ELSE LET path == CHOOSE q \in paths : TRUE
       IN SetIn(DocWith(paths \ {path}, valueOf), path, valueOf[path])

DiscoveryDocs ==
  {DocWith(DOMAIN valueOf, valueOf) :
     valueOf \in UNION {[paths -> LeafValues] :
                          paths \in {q \in SUBSET LeafPaths : Cardinality(q) <= MaxLeaves}}}

AdditionalPathsChoices ==
  {{}, {Chars("custom.field"), Chars("custom.mode"), Chars("skills.entries.s.env.tokenFile")}}

ExcludePathsChoices ==
  {{}, {Chars("channels.dev.*")}, {Chars("custom")}, {Chars("custom.field")},
   {Chars("*.botToken"), Chars("x.*.token")}}

DiscoveryOptions ==
  [includeUnknownPatterns : BOOLEAN, additionalPaths : AdditionalPathsChoices,
   excludePaths : ExcludePathsChoices]

InitDiscover ==
  /\ disk \in DiscoveryDocs
  /\ bak = Undefined
  /\ backend = NoBackend
  /\ secretMap = <<>>
  /\ doc0 = disk
  /\ backend0 = backend
  /\ last = Done("none", TRUE, <<>>, <<>>, <<>>, 0)
  /\ prev = last
  /\ hist = <<>>
  /\ Idle
  /\ mig = NotMigrating
  /\ options \in DiscoveryOptions
  /\ collation \in {"icu", "codeUnit"}
  /\ NoCli
  /\ NoCall

\* discoverSecrets(config, options) on the document read from disk; last.steps keeps
\* the order in which the walk met the leaves
Discover ==
  /\ hist = <<>>
  /\ \E visit \in VisitOrders(disk) :
       last' = Done("discover", TRUE, discoverSecrets(visit, options, collation),
                    <<>>, visit, 0)
  /\ prev' = last
  /\ hist' = Append(hist, "discover")
  /\ UNCHANGED <<disk, bak, backend, inputVars, toolVars, startVars, mig>>

NextDiscover == Discover

SpecDiscover == InitDiscover /\ [][NextDiscover]_vars

----------------------------------------------------------------------------
(* cli.ts: parseArgs and the merge of the preferences file in main *)

MaxArgs == 3

DEFAULT_BACKEND == "keychain"
DEFAULT_CONFIG_PATH == "~/.openclaw/openclaw.json"

\* arg.startsWith('-')
StartsWithDash(arg) == arg # "" /\ Chars(arg)[1] = "-"

\* the flags that only take the next argument: --region, --project, ...
PlainValueFlags ==
  {"--region", "--project", "--vault-name", "--addr", "--doppler-project",
   "--doppler-config"}

ParsedArgs(command, configPath, backendName, vault, exit) ==
  [command |-> command, configPath |-> configPath, backend |-> backendName,
   vault |-> vault, exit |-> exit]

\* args[++i]: undefined past the end
ArgAfter(args, i) == IF i + 1 <= Len(args) THEN Str(args[i + 1]) ELSE Undefined

\* a ?? b
Nullish(a, b) == IF a.t \in {"undefined", "null"} THEN b ELSE a

RECURSIVE ParseLoop(_, _, _)
\* the for loop of parseArgs from index i; exit is the status process.exit was called
\* with ("none": parseArgs returned).  Command lines carry no --timeout.
ParseLoop(args, i, acc) ==
  IF i > Len(args) THEN acc
  ELSE LET arg == args[i]
           next == Nullish(ArgAfter(args, i), Str(""))
       IN IF arg \in {"--help", "-h"} THEN [acc EXCEPT !.exit = "0"]
          ELSE IF arg = "--config"
            THEN IF next.v = "" THEN [acc EXCEPT !.configPath = next, !.exit = "1"]
                 ELSE ParseLoop(args, i + 2, [acc EXCEPT !.configPath = next])
          ELSE IF arg = "--backend"
            THEN IF next.v = "" THEN [acc EXCEPT !.backend = next, !.exit = "1"]
                 ELSE ParseLoop(args, i + 2, [acc EXCEPT !.backend = next])
          ELSE IF arg = "--vault"
            THEN ParseLoop(args, i + 2, [acc EXCEPT !.vault = ArgAfter(args, i)])
          ELSE IF arg \in PlainValueFlags
            THEN ParseLoop(args, i + 2, acc)
          ELSE IF StartsWithDash(arg) THEN [acc EXCEPT !.exit = "1"]
          ELSE ParseLoop(args, i + 1,
                         IF acc.command = "" THEN [acc EXCEPT !.command = arg] ELSE acc)

parseArgs(args) ==
  ParseLoop(args, 1,
            ParsedArgs("", Str(DEFAULT_CONFIG_PATH), Str(DEFAULT_BACKEND), Undefined,
                       "none"))

EmptyArray == [t |-> "array", v |-> "", f |-> NoMembers]

\* a file that does not exist, and one whose text is not JSON
AbsentFile    == [t |-> "absent",    v |-> "", f |-> NoMembers]
MalformedFile == [t |-> "malformed", v |-> "", f |-> NoMembers]

\* loadPreferences: {} when the file is missing, is not JSON or does not hold an object
loadPreferences(file) ==
  IF file.t \in {"absent", "malformed"} THEN Obj(NoMembers)
  ELSE IF file.t # "object" THEN Obj(NoMembers)
  ELSE file

\* parsed.backend !== DEFAULT_BACKEND ? parsed.backend : (prefs.backend ?? parsed.backend)
MergeBackend(parsed, prefs) ==
  IF parsed.backend # Str(DEFAULT_BACKEND) THEN parsed.backend
  ELSE Nullish(Member(prefs, Chars("backend")), parsed.backend)

\* the vault of backendOpts: parsed.vault ?? prefs.vault
MergeVault(parsed, prefs) == Nullish(parsed.vault, Member(prefs, Chars("vault")))

ArgTokens == {"--backend", "--vault", "--region", "keychain", "1password", "Private", "store"}

ArgvChoices == UNION {[1..n -> ArgTokens] : n \in 0..MaxArgs}

PrefsValues == {Undefined, Null, Str("keychain"), Str("1password"), Str("Shared")}

PrefsFiles ==
  {AbsentFile, MalformedFile, Null, EmptyArray}
    \cup {JsonRoundTrip(Obj([k \in {Chars("backend"), Chars("vault")} |->
                               IF k = Chars("backend") THEN b ELSE v])) :
            b \in PrefsValues \ {Str("Shared")}, v \in PrefsValues \ {Str("keychain"), Str("1password")}}

InitCli ==
  /\ disk = Obj(NoMembers)
  /\ bak = Undefined
  /\ backend = NoBackend
  /\ secretMap = <<>>
  /\ doc0 = disk
  /\ backend0 = backend
  /\ last = Done("none", TRUE, <<>>, <<>>, <<>>, 0)
  /\ prev = last
  /\ hist = <<>>
  /\ Idle
  /\ mig = NotMigrating
  /\ NoDiscovery
  /\ argv \in ArgvChoices
  /\ prefsFile \in PrefsFiles
  /\ cli = [CliIdle EXCEPT !.pc = "main"]
  /\ NoCall

cliFrame == UNCHANGED <<disk, bak, backend, inputVars, last, prev, hist, startVars, mig,
                        options, collation, argv, prefsFile, call>>

\* main: const parsed = parseArgs(process.argv)
CliParseArgs ==
  /\ cli.pc = "main"
  /\ LET parsed == parseArgs(argv)
     IN cli' = [cli EXCEPT !.parsed = parsed,
                           !.pc = IF parsed.exit = "none" THEN "parsed" ELSE "exited"]
  /\ cliFrame

\* main: const prefs = await loadPreferences()
CliLoadPreferences ==
  /\ cli.pc = "parsed"
  /\ cli' = [cli EXCEPT !.prefs = loadPreferences(prefsFile), !.pc = "loaded"]
  /\ cliFrame

\* main: backendName and backendOpts
CliMerge ==
  /\ cli.pc = "loaded"
  /\ cli' = [cli EXCEPT !.backendName = MergeBackend(cli.parsed, cli.prefs),
                        !.backendOpts = [vault |-> MergeVault(cli.parsed, cli.prefs)],
                        !.pc = "merged"]
  /\ cliFrame

NextCli ==
  \/ CliParseArgs
  \/ CliLoadPreferences
  \/ CliMerge

SpecCli == InitCli /\ [][NextCli]_vars

----------------------------------------------------------------------------
(* index.ts: autoStoreKeys, autoCheckKeys, autoRestoreKeys, autoScrubKeys *)

\* discoveredToSecretMap(discoverSecrets(config, options)) on a document whose leaves
\* the walk meets in the order visit
AutoSecretMap(visit) == discoveredToSecretMap(discoverSecrets(visit, options, collation))

\* the documents and options the auto commands are run on
AutoLeafPaths ==
  {split(Chars("channels.dev.botToken")), split(Chars("channels.Prod.botToken")),
   split(Chars("custom.field")), split(Chars("custom.webhookSecret")),
   split(Chars("tools.media.models.0.apiKey"))}

AutoDocs ==
  {DocWith(DOMAIN valueOf, valueOf) :
     valueOf \in UNION {[paths -> LeafValues] :
                          paths \in {q \in SUBSET AutoLeafPaths : Cardinality(q) <= MaxLeaves}}}

AutoOptions ==
  {DefaultOptions,
   [DefaultOptions EXCEPT !.includeUnknownPatterns = TRUE],
   [DefaultOptions EXCEPT !.additionalPaths = {Chars("custom.field")}],
   [DefaultOptions EXCEPT !.excludePaths = {Chars("channels.dev.*")}]}

InitAuto ==
  /\ disk \in AutoDocs
  /\ bak = Undefined
  /\ backend = NoBackend
  /\ secretMap = <<>>
  /\ doc0 = disk
  /\ backend0 = backend
  /\ last = Done("none", TRUE, <<>>, <<>>, <<>>, 0)
  /\ prev = last
  /\ hist = <<>>
  /\ Idle
  /\ mig = NotMigrating
  /\ options \in AutoOptions
  /\ collation \in {"icu", "codeUnit"}
  /\ NoCli
  /\ NoCall

\* autoStoreKeys on the original document; backend.set throws at entry failAt
AutoStoreKeys ==
  /\ hist = <<>>
  /\ \E visit \in VisitOrders(readConfig(disk)) :
       LET map == AutoSecretMap(visit)
       IN \E failAt \in 0..Len(map) :
            LET st == storeKeys(disk, map, backend, failAt)
                w  == writeConfig(disk, st.config)
            IN /\ (failAt # 0) = st.threw
               /\ backend' = st.backend
               /\ disk' = IF st.threw THEN disk ELSE w.disk
               /\ bak'  = IF st.threw THEN bak  ELSE w.bak
               /\ last' = Done("autoStore", ~st.threw, st.results, st.calls, st.steps, failAt)
               /\ hist' = Append(hist, IF st.threw THEN "autoStoreFailed" ELSE "autoStore")
  /\ prev' = last
  /\ UNCHANGED <<inputVars, toolVars, startVars, mig>>

\* autoCheckKeys after a store
AutoCheckKeys ==
  /\ hist = <<"autoStore">>
  /\ \E visit \in VisitOrders(readConfig(disk)) :
       LET st == checkKeys(AutoSecretMap(visit), backend)
       IN last' = Done("autoCheck", TRUE, st.results, st.calls, <<>>, 0)
  /\ prev' = last
  /\ hist' = Append(hist, "autoCheck")
  /\ UNCHANGED <<disk, bak, backend, inputVars, toolVars, startVars, mig>>

\* autoRestoreKeys after a store, or after a store and a check
AutoRestoreKeys ==
  /\ hist \in {<<"autoStore">>, <<"autoStore", "autoCheck">>}
  /\ \E visit \in VisitOrders(readConfig(disk)) :
       LET st == restoreKeys(disk, AutoSecretMap(visit), backend)
           w  == writeConfig(disk, st.config)
       IN /\ disk' = w.disk
          /\ bak'  = w.bak
          /\ last' = Done("autoRestore", TRUE, <<>>, st.calls, <<>>, 0)
  /\ prev' = last
  /\ hist' = Append(hist, "autoRestore")
  /\ UNCHANGED <<backend, inputVars, toolVars, startVars, mig>>

\* autoScrubKeys after a restore
AutoScrubKeys ==
  /\ Len(hist) >= 2 /\ hist[Len(hist)] = "autoRestore"
  /\ \E visit \in VisitOrders(readConfig(disk)) :
       LET w == writeConfig(disk, scrubKeys(disk, AutoSecretMap(visit)))
       IN /\ disk' = w.disk
          /\ bak'  = w.bak
  /\ last' = Done("autoScrub", TRUE, <<>>, <<>>, <<>>, 0)
  /\ prev' = last
  /\ hist' = Append(hist, "autoScrub")
  /\ UNCHANGED <<backend, inputVars, toolVars, startVars, mig>>

NextAuto ==
  \/ AutoStoreKeys
  \/ AutoCheckKeys
  \/ AutoRestoreKeys
  \/ AutoScrubKeys

SpecAuto == InitAuto /\ [][NextAuto]_vars

----------------------------------------------------------------------------
(* paths.ts called directly: setByPath(obj, path, value) *)

MaxDepth == 2
MaxSegments == 3

SegA == <<"a">>
SegB == <<"b">>
SegConstructor == Chars("constructor")

PathLeaves == {Null, Str("s")}

RECURSIVE JsonValues(_)
\* the JSON values of at most the given depth over the keys a and b
JsonValues(depth) ==
  IF depth = 0 THEN PathLeaves \cup {Obj(NoMembers)}
  ELSE PathLeaves \cup
       {Obj(g) : g \in UNION {[keys -> JsonValues(depth - 1)] : keys \in SUBSET {SegA, SegB}}}

PathDocs == {d \in JsonValues(MaxDepth) : d.t = "object"}

\* the dot paths of up to MaxSegments segments
PathArgs ==
  {JoinDots(segs) : segs \in UNION {[1..n -> {SegA, SegB, SegConstructor}] : n \in 1..MaxSegments}}

SetArgs == {p \in PathArgs : Len(split(p)) <= 2}

SetValues == {Str("v"), Null, Undefined}

callFrame == UNCHANGED <<disk, bak, backend, inputVars, last, prev, hist, startVars, mig,
                         options, collation, argv, prefsFile, cli>>

InitPaths ==
  /\ disk = Obj(NoMembers)
  /\ bak = Undefined
  /\ backend = NoBackend
  /\ secretMap = <<>>
  /\ doc0 = disk
  /\ backend0 = backend
  /\ last = Done("none", TRUE, <<>>, <<>>, <<>>, 0)
  /\ prev = last
  /\ hist = <<>>
  /\ Idle
  /\ mig = NotMigrating
  /\ NoDiscovery
  /\ NoCli
  /\ \E obj \in PathDocs, path \in SetArgs, value \in SetValues :
       call = [fn |-> "setByPath", pc |-> "called", obj |-> obj, path |-> path,
               value |-> value, result |-> Undefined]

\* const result = setByPath(obj, path, value): obj is cloned, never written
SetByPath ==
  /\ call.fn = "setByPath" /\ call.pc = "called"
  /\ call' = [call EXCEPT !.result = setByPath(call.obj, call.path, call.value),
                          !.pc = "returned"]
  /\ callFrame

NextPaths == SetByPath

SpecPaths == InitPaths /\ [][NextPaths]_vars

----------------------------------------------------------------------------
(* discovery.ts called directly: pathToKeychainName(configPath) *)

MaxNameSegments == 3

NameSegments ==
  {Chars("channels"), Chars("web"), Chars("0"), Chars("12"), <<>>, Chars("main"),
   Chars("botToken"), Chars("apiKey"), Chars("aBC"), Chars("x-y")}

NamePaths ==
  {JoinDots(segs) : segs \in UNION {[1..n -> NameSegments] : n \in 1..MaxNameSegments}}

InitKeyName ==
  /\ disk = Obj(NoMembers)
  /\ bak = Undefined
  /\ backend = NoBackend
  /\ secretMap = <<>>
  /\ doc0 = disk
  /\ backend0 = backend
  /\ last = Done("none", TRUE, <<>>, <<>>, <<>>, 0)
  /\ prev = last
  /\ hist = <<>>
  /\ Idle
  /\ mig = NotMigrating
  /\ NoDiscovery
  /\ NoCli
  /\ \E path \in NamePaths :
       call = [fn |-> "pathToKeychainName", pc |-> "called", obj |-> Undefined,
               path |-> path, value |-> Undefined, result |-> Undefined]

\* const name = pathToKeychainName(configPath)
PathToKeychainName ==
  /\ call.fn = "pathToKeychainName" /\ call.pc = "called"
  /\ call' = [call EXCEPT !.result = pathToKeychainName(call.path), !.pc = "returned"]
  /\ callFrame

NextKeyName == PathToKeychainName

SpecKeyName == InitKeyName /\ [][NextKeyName]_vars

Next ==
  \/ \E failAt \in 0..Len(secretMap) : StoreKeys(failAt)
  \/ RestoreKeys
  \/ ScrubKeys
  \/ CheckKeys

Spec == Init /\ [][Next]_vars

----------------------------------------------------------------------------
(* Vocabulary of the properties *)

IsPrefix(s, t) == Len(s) <= Len(t) /\ SubSeq(t, 1, Len(s)) = s

\* Two config paths address the same location or one lies under the other
Overlap(p, q) == IsPrefix(split(p), split(q)) \/ IsPrefix(split(q), split(p))

\* No entry's config path equals, or is nested under, another entry's
NonNested(map) ==
  \A i, j \in DOMAIN map : i # j => ~Overlap(map[i].configPath, map[j].configPath)

\* The SecretMap invariant: a config path occurs once
UniquePaths(map) ==
  \A i, j \in DOMAIN map : i # j => map[i].configPath # map[j].configPath

DistinctKeyNames(map) ==
  \A i, j \in DOMAIN map : i # j => map[i].keychainName # map[j].keychainName

\* Entries that address different locations use different key names
KeyNamePerPath(map) ==
  \A i, j \in DOMAIN map :
     map[i].configPath # map[j].configPath => map[i].keychainName # map[j].keychainName

IsSecretString(value) == value.t = "string" /\ value.v # KEYCHAIN_PLACEHOLDER

\* The state storeKeys' loop was in before it processed entry i
BeforeStep(i) ==
  IF i = 1 THEN [config |-> last.pre.disk, backend |-> last.pre.backend, ncalls |-> 0]
  ELSE last.steps[i - 1]

RECURSIVE ApplySets(_, _, _)
\* The backend b after the first n calls of a sequence of set calls
ApplySets(b, calls, n) ==
  IF n = 0 THEN b
  ELSE BackendSet(ApplySets(b, calls, n - 1), calls[n].key, calls[n].value)

----------------------------------------------------------------------------
(* Properties of the lifecycle engine *)

\* a managed config path of the document holds a real secret: a string that is not
\* the placeholder
HoldsRealSecret(doc) ==
  \E i \in DOMAIN secretMap :
    IsSecretString(getByPath(doc, secretMap[i].configPath))

StartWindow == {"spawn", "wait", "scrubRead", "scrubWrite"}

C2_ScrubIdempotent ==
  (hist = <<"scrub", "scrub">>) => disk = last.pre.disk

\* C2 witness: a second scrub has run after a first one that changed a document
\* holding a non-string value at a map path, with a map whose paths overlap.
C2_Witness ==
  /\ hist = <<"scrub", "scrub">>
  /\ prev.pre.disk # last.pre.disk
  /\ ~NonNested(secretMap)
  /\ \E i \in DOMAIN secretMap :
        getByPath(doc0, secretMap[i].configPath).t \in {"number", "null", "object"}

\* C3 as claimed: with a fresh backend, store followed by restore brings every map
\* path back to what it held in the original document, for every map.
C3_RoundTripAnyMap ==
  (hist = <<"store", "restore">> /\ backend0 = NoBackend)
    => \A i \in DOMAIN secretMap :
          getByPath(disk, secretMap[i].configPath)
            = getByPath(doc0, secretMap[i].configPath)

\* C3 amended: the round trip holds for every map in which entries with different
\* config paths have different key names.
C3_RoundTrip ==
  (hist = <<"store", "restore">> /\ backend0 = NoBackend /\ KeyNamePerPath(secretMap))
    => \A i \in DOMAIN secretMap :
          getByPath(disk, secretMap[i].configPath)
            = getByPath(doc0, secretMap[i].configPath)

\* C3 witness: store has replaced a secret by the placeholder and restore has put
\* it back.
C3_Witness ==
  /\ hist = <<"store", "restore">> /\ backend0 = NoBackend /\ KeyNamePerPath(secretMap)
  /\ \E i \in DOMAIN secretMap :
        /\ IsSecretString(getByPath(doc0, secretMap[i].configPath))
        /\ getByPath(last.pre.disk, secretMap[i].configPath) = Placeholder
        /\ getByPath(disk, secretMap[i].configPath)
             = getByPath(doc0, secretMap[i].configPath)

\* C4: after a store that returned, with a map of pairwise distinct key names whose
\* config paths neither coincide nor nest, every entry that held a string other
\* than the placeholder is reported stored, the backend holds that string under the
\* entry's key name, and the persisted document holds the placeholder at its path.
C4_StoreStores ==
  (last.op = "store" /\ last.ok /\ DistinctKeyNames(secretMap) /\ NonNested(secretMap))
    => \A i \in DOMAIN secretMap :
          LET entry == secretMap[i]
              value == getByPath(last.pre.disk, entry.configPath)
          IN IsSecretString(value)
               => /\ last.results[i].stored
                  /\ BackendHas(backend, entry.keychainName)
                  /\ backend[entry.keychainName] = value.v
                  /\ getByPath(disk, entry.configPath) = Placeholder

\* C4 witness: a store of two secrets under two key names has returned.
C4_Witness ==
  /\ last.op = "store" /\ last.ok
  /\ DistinctKeyNames(secretMap) /\ NonNested(secretMap)
  /\ Len(secretMap) >= 2
  /\ \A i \in DOMAIN secretMap :
        IsSecretString(getByPath(last.pre.disk, secretMap[i].configPath))

\* C5: when backend.set throws at entry k, store stops there: the loop processes no
\* later entry, the failing set is the last backend call, neither the document nor
\* its backup is written, and the backend holds what the earlier set calls wrote.
C5_StoreFailure ==
  (last.op = "store" /\ ~last.ok)
    => /\ disk = last.pre.disk
       /\ bak = last.pre.bak
       /\ Len(last.steps) = last.failAt
       /\ Len(last.results) < last.failAt
       /\ last.calls # <<>>
       /\ last.calls[Len(last.calls)].key = secretMap[last.failAt].keychainName
       /\ backend = ApplySets(last.pre.backend, last.calls, Len(last.calls) - 1)

\* C5 witness: backend.set threw at the second entry after the first was stored.
C5_Witness ==
  /\ last.op = "store" /\ ~last.ok
  /\ last.failAt = 2
  /\ Len(last.calls) = 2
  /\ backend # last.pre.backend
  /\ IsSecretString(getByPath(disk, secretMap[1].configPath))

\* C6: a store run on the document a successful store has just persisted, with the
\* same map, stores nothing: every entry the first run stored is skipped as already
\* stored, no backend call is made, the backend and the document are unchanged.
C6_StoreIdempotent ==
  (hist = <<"store", "store">>)
    => /\ \A i \in DOMAIN secretMap :
             /\ ~last.results[i].stored
             /\ prev.results[i].stored
                  => last.results[i].reason = "Already stored in backend"
       /\ last.calls = <<>>
       /\ backend = last.pre.backend
       /\ disk = last.pre.disk

\* C6 witness: the first of two stores stored a secret.
C6_Witness ==
  /\ hist = <<"store", "store">>
  /\ \E i \in DOMAIN secretMap : prev.results[i].stored

\* C7 as claimed: one result per entry in map order; an entry whose value is absent
\* (undefined) is skipped as not found, one whose value is present but not a string
\* (null included) as not a string, one holding the placeholder as already stored;
\* a skipped entry makes no backend call and leaves the document as it was.
C7_SkipReasonsNullNotString ==
  (last.op = "store")
    => /\ last.ok => Len(last.results) = Len(secretMap)
       /\ \A i \in DOMAIN last.results :
             LET entry == secretMap[i]
                 value == getByPath(BeforeStep(i).config, entry.configPath)
                 r     == last.results[i]
             IN /\ r.configPath = entry.configPath
                /\ r.keychainName = entry.keychainName
                /\ ~IsSecretString(value)
                     => /\ ~r.stored /\ r.skipped
                        /\ r.reason = (IF value.t = "undefined" THEN "Value not found in config"
                                       ELSE IF value.t # "string" THEN "Value is not a string"
                                       ELSE "Already stored in backend")
                        /\ last.steps[i] = BeforeStep(i)

\* C7 amended: as claimed, except that a null value is reported as not found, like
\* an absent one; only a present, non-null value that is not a string is reported
\* as not a string.
C7_SkipReasons ==
  (last.op = "store")
    => /\ last.ok => Len(last.results) = Len(secretMap)
       /\ \A i \in DOMAIN last.results :
             LET entry == secretMap[i]
                 value == getByPath(BeforeStep(i).config, entry.configPath)
                 r     == last.results[i]
             IN /\ r.configPath = entry.configPath
                /\ r.keychainName = entry.keychainName
                /\ ~IsSecretString(value)
                     => /\ ~r.stored /\ r.skipped
                        /\ r.reason = (IF value.t \in {"undefined", "null"} THEN "Value not found in config"
                                       ELSE IF value.t # "string" THEN "Value is not a string"
                                       ELSE "Already stored in backend")
                        /\ last.steps[i] = BeforeStep(i)

\* C7 witness: a store has skipped a null value and then stored a secret.
C7_Witness ==
  /\ last.op = "store" /\ last.ok /\ Len(secretMap) = 2
  /\ getByPath(last.pre.disk, secretMap[1].configPath) = Null
  /\ last.results[1].skipped
  /\ last.results[2].stored

\* C8 as claimed: for every map (of pairwise different config paths), restore
\* leaves the value at the path of every entry whose key the backend does not hold
\* exactly as it was, and the path of every entry whose key it holds ends up with
\* the backend's value.
C8_RestoreFrameAnyMap ==
  (last.op = "restore" /\ UniquePaths(secretMap))
    => \A i \in DOMAIN secretMap :
          LET entry == secretMap[i]
          IN getByPath(disk, entry.configPath)
               = IF BackendHas(backend, entry.keychainName)
                   THEN Str(backend[entry.keychainName])
                   ELSE getByPath(last.pre.disk, entry.configPath)

\* C8 amended: the same, for maps whose config paths neither coincide nor nest.
C8_RestoreFrame ==
  (last.op = "restore" /\ NonNested(secretMap))
    => \A i \in DOMAIN secretMap :
          LET entry == secretMap[i]
          IN getByPath(disk, entry.configPath)
               = IF BackendHas(backend, entry.keychainName)
                   THEN Str(backend[entry.keychainName])
                   ELSE getByPath(last.pre.disk, entry.configPath)

\* C8 witness: a restore has resolved one entry and left an unresolved one, which
\* holds a real value, alone.
C8_Witness ==
  /\ last.op = "restore" /\ NonNested(secretMap) /\ Len(secretMap) = 2
  /\ ~BackendHas(backend, secretMap[1].keychainName)
  /\ IsSecretString(getByPath(disk, secretMap[1].configPath))
  /\ BackendHas(backend, secretMap[2].keychainName)
  /\ getByPath(last.pre.disk, secretMap[2].configPath) = Placeholder
  /\ getByPath(disk, secretMap[2].configPath) = Str(backend[secretMap[2].keychainName])

\* C9: check is a read-only probe: it leaves the document, its backup and the
\* backend alone, calls nothing but backend.get, and returns one result per entry,
\* in map order, whose exists flag says whether the backend holds the entry's key.
C9_CheckReadOnly ==
  (last.op = "check")
    => /\ disk = last.pre.disk /\ bak = last.pre.bak /\ backend = last.pre.backend
       /\ \A c \in DOMAIN last.calls : last.calls[c].m = "get"
       /\ Len(last.results) = Len(secretMap)
       /\ \A i \in DOMAIN secretMap :
             /\ last.results[i].configPath = secretMap[i].configPath
             /\ last.results[i].keychainName = secretMap[i].keychainName
             /\ last.results[i].exists = BackendHas(backend, secretMap[i].keychainName)

\* C9 witness: a check has found one key and missed another.
C9_Witness ==
  /\ last.op = "check" /\ Len(secretMap) = 2
  /\ last.results[1].exists
  /\ ~last.results[2].exists

\* C10: migrate moves a legacy secret: for every legacy entry whose derived new name
\* differs from its old name, if the backend held a value v under the old name and
\* nothing under the new name when migrate began, then after migrate it holds v
\* under the new name, nothing under the old name, and the entry is reported
\* migrated.  The whisper entry's new name is "openai-whisper-api-api-key".
C10_MigrateMoves ==
  /\ pathToKeychainName(WhisperPath) =
       <<"o","p","e","n","a","i","-","w","h","i","s","p","e","r","-",
         "a","p","i","-","a","p","i","-","k","e","y">>
  /\ (last.op = "migrate")
       => /\ Len(last.results) = Len(LEGACY_KEY_NAMES)
          /\ \A i \in DOMAIN LEGACY_KEY_NAMES :
               LET oldName == LEGACY_KEY_NAMES[i].oldName
                   newName == pathToKeychainName(LEGACY_KEY_NAMES[i].configPath)
               IN (/\ newName # oldName
                   /\ BackendHas(last.pre.backend, oldName)
                   /\ ~BackendHas(last.pre.backend, newName))
                    => /\ BackendGet(backend, newName) = Str(last.pre.backend[oldName])
                       /\ ~BackendHas(backend, oldName)
                       /\ last.results[i].migrated
                       /\ last.results[i].oldName = oldName
                       /\ last.results[i].newName = newName

\* C10 witness: a migrate has moved the whisper key, which the backend held under
\* the old name only, and found nothing to move for the search key.
C10_Witness ==
  /\ last.op = "migrate"
  /\ BackendHas(last.pre.backend, WhisperOldName)
  /\ ~BackendHas(last.pre.backend, pathToKeychainName(WhisperPath))
  /\ ~BackendHas(last.pre.backend, BraveOldName)
  /\ backend[pathToKeychainName(WhisperPath)] = last.pre.backend[WhisperOldName]
  /\ ~BackendHas(backend, WhisperOldName)
  /\ last.results[1].migrated /\ ~last.results[2].migrated

\* the part of a backend that concerns one legacy entry: what it holds under the
\* entry's old and new names
LegacyPart(b, i) ==
  LET names == {LEGACY_KEY_NAMES[i].oldName, pathToKeychainName(LEGACY_KEY_NAMES[i].configPath)}
  IN [k \in names \cap DOMAIN b |-> b[k]]

\* C11: in migrate, when the old and the new name both hold values the new value
\* wins: the value under the new name is unchanged, the old name is absent and the
\* entry is reported migrated with the reason that the old was deleted because the
\* new already existed; when the old name holds nothing the entry is reported not
\* migrated and the backend is not modified for it.
C11_MigrateNewWins ==
  (last.op = "migrate")
    => \A i \in DOMAIN LEGACY_KEY_NAMES :
         LET oldName == LEGACY_KEY_NAMES[i].oldName
             newName == pathToKeychainName(LEGACY_KEY_NAMES[i].configPath)
             pre     == last.pre.backend
         IN /\ (BackendHas(pre, oldName) /\ BackendHas(pre, newName))
                 => /\ BackendGet(backend, newName) = Str(pre[newName])
                    /\ ~BackendHas(backend, oldName)
                    /\ last.results[i].migrated
                    /\ last.results[i].reason = "Deleted old (new already existed)"
            /\ ~BackendHas(pre, oldName)
                 => /\ ~last.results[i].migrated
                    /\ last.results[i].reason = "No value found at old name"
                    /\ LegacyPart(backend, i) = LegacyPart(pre, i)
                    /\ \A c \in DOMAIN last.calls :
                         last.calls[c].key \in {oldName, newName}
                           => last.calls[c].m = "get"

\* C11 witness: a migrate has found the whisper key under both names, with different
\* values, and kept the new one; it has found no old search key and left the new
\* one alone.
C11_Witness ==
  /\ last.op = "migrate"
  /\ BackendHas(last.pre.backend, WhisperOldName)
  /\ BackendHas(last.pre.backend, pathToKeychainName(WhisperPath))
  /\ last.pre.backend[WhisperOldName] # last.pre.backend[pathToKeychainName(WhisperPath)]
  /\ ~BackendHas(last.pre.backend, BraveOldName)
  /\ BackendHas(last.pre.backend, pathToKeychainName(BravePath))
  /\ last.results[1].migrated /\ ~last.results[2].migrated
  /\ ~BackendHas(backend, WhisperOldName)

\* C12: migrate is safe to run repeatedly: a second migrate right after a completed
\* first one calls no backend set or delete, leaves the backend as the first run
\* left it and reports every legacy entry as not migrated.
C12_MigrateTwice ==
  (hist = <<"migrate", "migrate">>)
    => /\ \A c \in DOMAIN last.calls : last.calls[c].m = "get"
       /\ backend = last.pre.backend
       /\ Len(last.results) = Len(LEGACY_KEY_NAMES)
       /\ \A i \in DOMAIN last.results : ~last.results[i].migrated

\* C12 witness: the second migrate follows a first one that moved both legacy keys.
C12_Witness ==
  /\ hist = <<"migrate", "migrate">>
  /\ prev.results[1].migrated /\ prev.results[1].reason = ""
  /\ prev.results[2].migrated
  /\ Len(last.calls) = 2
  /\ backend # backend0

\* the entries discover has reported for a path
ReportsOf(results, path) == {results[n] : n \in {m \in DOMAIN results : results[m].configPath = path}}

LastSegment(path) == split(path)[Len(split(path))]

DevToken  == Chars("channels.dev.botToken")
ProdToken == Chars("channels.Prod.botToken")
EnvTokenFile == Chars("skills.entries.s.env.tokenFile")
CustomField == Chars("custom.field")

\* C13: discover never reports a leaf whose value equals the placeholder, whatever
\* its path and the options; if every string leaf of the document equals the
\* placeholder, discover returns nothing.
C13_NoPlaceholderDiscovered ==
  (last.op = "discover")
    => /\ \A n \in DOMAIN last.results : last.results[n].value # KEYCHAIN_PLACEHOLDER
       /\ \A leaf \in StringLeaves(disk, <<>>) :
            leaf.value = KEYCHAIN_PLACEHOLDER
              => \A e \in ReportsOf(last.results, JoinDots(leaf.path)) : e.value # leaf.value
       /\ (\A leaf \in StringLeaves(disk, <<>>) : leaf.value = KEYCHAIN_PLACEHOLDER)
            => last.results = <<>>

\* C13 witness: discover has passed over a placeholder at a known path and one at an
\* additional path, value patterns included.
C13_Witness ==
  /\ last.op = "discover"
  /\ options.includeUnknownPatterns
  /\ getByPath(disk, DevToken) = Placeholder
  /\ getByPath(disk, CustomField) = Placeholder
  /\ CustomField \in options.additionalPaths
  /\ options.excludePaths = {}
  /\ last.results = <<>>

\* C14: every secret discover returns has a value of at least MIN_SECRET_LENGTH
\* (16) characters, also when it is matched by an additional or a known path.
C14_LengthFloor ==
  (last.op = "discover")
    => \A n \in DOMAIN last.results : Len(last.results[n].value) >= 16

\* C14 witness: discover has passed over a value of 15 characters at an additional
\* path and reported one of 16 characters at a known path.
C14_Witness ==
  /\ last.op = "discover"
  /\ getByPath(disk, CustomField) = Str("abcdefghijklmno")
  /\ CustomField \in options.additionalPaths
  /\ getByPath(disk, DevToken) = Str("abcdefghijklmnop")
  /\ options.excludePaths = {}
  /\ Len(last.results) = 1
  /\ last.results[1].configPath = DevToken

\* C15: a reported leaf has matchType known-path whenever its path is an additional
\* path or a known path, key-pattern only when it is not and its last segment is a
\* secret field name, and value-pattern only when neither holds, value patterns are
\* included and the value matches one; without includeUnknownPatterns no entry has
\* matchType value-pattern.
C15_MatchTypePrecedence ==
  (last.op = "discover")
    => \A n \in DOMAIN last.results :
         LET e     == last.results[n]
             known == e.configPath \in options.additionalPaths \/ isKnownSecretPath(e.configPath)
             named == isSecretKeyName(LastSegment(e.configPath))
         IN /\ known => e.matchType = "known-path"
            /\ (e.matchType = "key-pattern") => (~known /\ named)
            /\ (e.matchType = "value-pattern")
                 => /\ ~known /\ ~named
                    /\ options.includeUnknownPatterns
                    /\ matchesSecretValuePattern(Chars(e.value))
            /\ e.matchType \in {"known-path", "key-pattern", "value-pattern"}

\* C15 witness: discover has reported as known-path a leaf whose name and value
\* match too, and as value-pattern a leaf that only its value gives away.
C15_Witness ==
  /\ last.op = "discover"
  /\ Len(last.results) = 2
  /\ last.results[1].configPath = ProdToken
  /\ last.results[1].matchType = "known-path"
  /\ isSecretKeyName(LastSegment(ProdToken))
  /\ matchesSecretValuePattern(Chars(last.results[1].value))
  /\ last.results[2].configPath = CustomField
  /\ last.results[2].matchType = "value-pattern"

RECURSIVE SegmentsMatch(_, _)
\* a pattern of segments matches a path of segments, a "*" segment standing for one
\* or more segments
SegmentsMatch(pattern, path) ==
  IF pattern = <<>> THEN path = <<>>
  ELSE IF Head(pattern) = <<"*">>
    THEN \E n \in 1..Len(path) : SegmentsMatch(Tail(pattern), SubSeq(path, n + 1, Len(path)))
  ELSE path # <<>> /\ Head(path) = Head(pattern) /\ SegmentsMatch(Tail(pattern), Tail(path))

\* the path matches an excludePaths entry as the claim describes it: the exact path,
\* a path under that prefix, or a wildcard pattern
IsExcludedPath(path, patterns) ==
  \E pattern \in patterns :
    IF <<"*">> \in {split(pattern)[n] : n \in DOMAIN split(pattern)}
      THEN SegmentsMatch(split(pattern), split(path))
      ELSE /\ Len(split(pattern)) <= Len(split(path))
           /\ SubSeq(split(path), 1, Len(split(pattern))) = split(pattern)

\* C16: a string leaf whose path matches an excludePaths entry is never reported,
\* also when the path is an additional path or matches a known-path, key-name or
\* value rule; a leaf whose path matches no entry is reported as it would be with
\* excludePaths empty.
C16_ExcludePaths ==
  (last.op = "discover")
    => \A leaf \in StringLeaves(disk, <<>>) :
         LET path == JoinDots(leaf.path)
         IN IF IsExcludedPath(path, options.excludePaths)
              THEN ReportsOf(last.results, path) = {}
              ELSE ReportsOf(last.results, path)
                     = ReportsOf(discoverSecrets(last.steps,
                                                 [options EXCEPT !.excludePaths = {}],
                                                 collation), path)

\* C16 witness: with channels.dev.* excluded, discover has passed over the dev token
\* and reported the prod token.
C16_Witness ==
  /\ last.op = "discover"
  /\ options.excludePaths = {Chars("channels.dev.*")}
  /\ getByPath(disk, DevToken) = Str("abcdefghijklmnop")
  /\ getByPath(disk, ProdToken) = Str("abcdefghijklmnop")
  /\ Len(last.results) = 1
  /\ last.results[1].configPath = ProdToken

\* C17: a leaf whose last path segment is in the exclusion set (tokenFile, mode,
\* tlsFingerprint, sessionPrefix) is never reported, also when its path is an
\* additional path, matches a known-path pattern or its value matches a value
\* pattern; and isSecretKeyName is false for every excluded name.
C17_HardExclusionWins ==
  /\ \A key \in SECRET_KEY_EXCLUDE : ~isSecretKeyName(key)
  /\ (last.op = "discover")
       => /\ \A n \in DOMAIN last.results :
               LastSegment(last.results[n].configPath) \notin SECRET_KEY_EXCLUDE
          /\ \A leaf \in StringLeaves(disk, <<>>) :
               leaf.path[Len(leaf.path)] \in SECRET_KEY_EXCLUDE
                 => ReportsOf(last.results, JoinDots(leaf.path)) = {}

\* C17 witness: discover has passed over a tokenFile entry under a skill's env, a
\* known path that is an additional path too and whose value has the shape of a key,
\* and reported the leaf next to it.
C17_Witness ==
  /\ last.op = "discover"
  /\ options.includeUnknownPatterns
  /\ EnvTokenFile \in options.additionalPaths
  /\ isKnownSecretPath(EnvTokenFile)
  /\ getByPath(disk, EnvTokenFile) = Str("sk-abcdefghijklmnopqrstuvwx")
  /\ getByPath(disk, Chars("custom.webhookSecret")) = Str("abcdefghijklmnop")
  /\ options.excludePaths = {}
  /\ Len(last.results) = 1
  /\ last.results[1].matchType = "key-pattern"

\* C18: the sequence discover returns holds no two entries with the same configPath
\* and is in ascending lexicographic order of configPath, the order a plain string
\* sort of the paths produces.
C18_SortedUnique ==
  (last.op = "discover")
    => \A m, n \in DOMAIN last.results :
         m < n => CompareBy(last.results[m].configPath, last.results[n].configPath,
                            "codeUnit") = -1

\* the arguments hold flags each followed by a value, and commands
WellFormedArgs(args) ==
  \A i \in DOMAIN args :
    StartsWithDash(args[i]) => i + 1 <= Len(args) /\ ~StartsWithDash(args[i + 1])

FlagGiven(args, flag) == \E i \in DOMAIN args : args[i] = flag

\* the value the last occurrence of the flag is given
FlagValue(args, flag) ==
  Str(args[(CHOOSE i \in DOMAIN args :
              args[i] = flag /\ \A j \in DOMAIN args : args[j] = flag => j <= i) + 1])

\* C19: for backend and vault, whenever the flag is passed on the command line the
\* effective value is the command-line value, whatever that value is and whatever
\* the preferences file holds; the preferences value is used only when the flag is
\* not given.
C19_FlagsOverridePreferences ==
  (cli.pc = "merged" /\ WellFormedArgs(argv))
    => /\ FlagGiven(argv, "--backend") => cli.backendName = FlagValue(argv, "--backend")
       /\ FlagGiven(argv, "--vault") => cli.backendOpts.vault = FlagValue(argv, "--vault")

\* the paths a store has stored
StoredPaths(results) ==
  {results[n].configPath : n \in {m \in DOMAIN results : results[m].stored}}

\* C20: after autoStoreKeys has stored the discovered secrets of a document in a
\* fresh backend, a following autoRestoreKeys with the same options leaves every
\* stored path with its original value in the persisted document, and an
\* autoCheckKeys in between reports each stored secret as existing.
C20_AutoRoundTrip ==
  /\ (hist = <<"autoStore", "autoRestore">>)
       => \A path \in StoredPaths(prev.results) :
            getByPath(disk, path) = getByPath(doc0, path)
  /\ (hist = <<"autoStore", "autoCheck">>)
       => \A path \in StoredPaths(prev.results) :
            \E n \in DOMAIN last.results :
              last.results[n].configPath = path /\ last.results[n].exists

\* neither path is a prefix of the other, segment by segment
Unrelated(p, q) == ~IsPrefix(split(p), split(q)) /\ ~IsPrefix(split(q), split(p))

\* C21: setByPath(obj, path, value) leaves obj as it was, getByPath(result, path)
\* returns value, and every path that is neither a prefix nor an extension of path
\* resolves to the same value in the result as in obj.
C21_SetExactAndFramed ==
  (call.fn = "setByPath" /\ call.pc = "returned")
    => /\ getByPath(call.result, call.path) = call.value
       /\ \A q \in PathArgs :
            Unrelated(call.path, q) => getByPath(call.result, q) = getByPath(call.obj, q)

\* a segment that is neither purely decimal digits nor structural noise
Survives(part) ==
  /\ part \notin skipPrefixes
  /\ ~(part # <<>> /\ \A n \in DOMAIN part : part[n] \in Digits)

RECURSIVE Surviving(_)
Surviving(parts) ==
  IF parts = <<>> THEN <<>>
  ELSE (IF Survives(Head(parts)) THEN <<Head(parts)>> ELSE <<>>) \o Surviving(Tail(parts))

\* C22: pathToKeychainName returns, for every non-empty path with at least one
\* segment that is neither purely decimal digits nor structural noise, a non-empty
\* string: the hyphen-joined lower-case forms of the surviving segments, in order.
C22_KeyNameNonEmpty ==
  (call.fn = "pathToKeychainName" /\ call.pc = "returned" /\ call.path # <<>>
     /\ Surviving(split(call.path)) # <<>>)
    => /\ call.result # <<>>
       /\ call.result = Join([n \in DOMAIN Surviving(split(call.path)) |->
                                Kebab(Surviving(split(call.path))[n])])

\* C22 as the code has it: the name is the hyphen-joined lower-case forms of the
\* surviving segments, in order, holds no upper-case letter, and is non-empty when
\* one surviving segment is non-empty.
C22_KeyNameOfSurvivingParts ==
  (call.fn = "pathToKeychainName" /\ call.pc = "returned")
    => /\ call.result = pathToKeychainName(call.path)
       /\ call.result = Join([n \in DOMAIN Surviving(split(call.path)) |->
                                Kebab(Surviving(split(call.path))[n])])
       /\ \A n \in DOMAIN call.result : ~IsUpper(call.result[n])
       /\ (\E n \in DOMAIN Surviving(split(call.path)) :
             Surviving(split(call.path))[n] # <<>>) => call.result # <<>>

\* C22 witness: a path with a noise segment, an index and a camelCase segment has
\* been named.
C22_Witness ==
  /\ call.fn = "pathToKeychainName" /\ call.pc = "returned"
  /\ call.path = Chars("channels.0.botToken")
  /\ call.result = Chars("bot-token")

\* C23: within the result of one discover call, any two secrets with different
\* configPaths have different derived key names, sibling elements of an array
\* included.
C23_UniqueKeyNames ==
  (last.op = "discover")
    => \A m, n \in DOMAIN last.results :
         last.results[m].configPath # last.results[n].configPath
           => last.results[m].keychainName # last.results[n].keychainName

\* C26: for every entry of a discover result, getByPath on the document with the
\* entry's configPath returns the entry's value, also when keys of the document
\* contain a dot or are empty.
C26_DiscoveredIsAddressable ==
  (last.op = "discover")
    => \A n \in DOMAIN last.results :
         getByPath(disk, last.results[n].configPath) = Str(last.results[n].value)

\* the path lies apart from every config path of the map
Unaddressed(path, map) == \A i \in DOMAIN map : ~Overlap(path, map[i].configPath)

\* what C24 says of a scrub that has completed
ScrubbedAll ==
  /\ \A i \in DOMAIN secretMap :
       LET before == getByPath(last.pre.disk, secretMap[i].configPath)
           after  == getByPath(disk, secretMap[i].configPath)
       IN /\ after \in {Placeholder, Undefined}
          /\ before # Undefined => after = Placeholder
  /\ last.calls = <<>>
  /\ backend = last.pre.backend
  /\ \A path \in Paths :
       Unaddressed(path, secretMap) => getByPath(disk, path) = getByPath(last.pre.disk, path)

\* C24: after scrub completes, every map path of the persisted document resolves to
\* the placeholder or to absent; every value that was present at a map path, of
\* whatever type, has been replaced by the placeholder; scrub makes no backend call
\* and leaves the paths the map does not address unchanged.
C24_ScrubAll == (last.op = "scrub") => ScrubbedAll

\* C24 amended: the same, for maps whose config paths do not nest.
C24_ScrubAllNonNested == (last.op = "scrub" /\ NonNested(secretMap)) => ScrubbedAll

\* C24 witness: a scrub has replaced a null and a string at the two paths of a map,
\* with a backend that holds a key.
C24_Witness ==
  /\ last.op = "scrub" /\ NonNested(secretMap) /\ Len(secretMap) = 2
  /\ {getByPath(last.pre.disk, secretMap[i].configPath).t : i \in {1, 2}} = {"null", "string"}
  /\ \A i \in {1, 2} : getByPath(last.pre.disk, secretMap[i].configPath) # Placeholder
  /\ \A i \in {1, 2} : getByPath(disk, secretMap[i].configPath) = Placeholder
  /\ backend # NoBackend

\* C25: when a signal has arrived between the start of restore and the end of the
\* final scrub, the process exits with status 1 only after the scrub the cleanup
\* hook invoked has settled, whether it succeeded or failed.
C25_ExitOnlyAfterScrubSettled ==
  (sig # "none" /\ exited = "1") => sig = "exit"

\* C25 amended: the exit the hook makes comes only after its scrub has settled,
\* failed or not; an exit before the scrub has settled is one main's catch makes
\* when restoreKeys or scrubKeys throws in the main flow.
C25_HookExitsAfterScrubSettled ==
  /\ (sig # "none" /\ exited = "1" /\ hist = <<>>) => sig = "exit"
  /\ (sig # "none" /\ exited = "1" /\ sig # "exit") => hist = <<"startFailed">>

\* C25 witness: a signal arrived while restore was reading the backend, the hook's
\* scrub failed on reading the document, and the process has exited with status 1
\* by the hook.
C25_Witness ==
  /\ exited = "1" /\ sig = "exit" /\ hist = <<>>
  /\ sigConfig = Undefined
  /\ pc = "restoreGet"

\* C27: after store or scrub has completed successfully, neither the document nor
\* the .bak backup writeConfig made of the prior content holds a real secret at a
\* config path of the map.
C27_NoSecretInDocumentOrBackup ==
  (last.op \in {"store", "scrub"} /\ last.ok)
    => ~HoldsRealSecret(disk) /\ ~HoldsRealSecret(bak)


-----------------------------------------------------------------------------
(* The lifecycle commands and migrate, in any order, on one backend *)

\* the maps name a key of their own or a legacy name that migrate moves
LifecycleKeyNames == {<<"k", "1">>, WhisperOldName}

LifecycleMaps ==
  UNION {[1..n -> [configPath : {PathA, PathB}, keychainName : LifecycleKeyNames]] :
           n \in 0..MaxMapLen}

\* documents holding a secret or, already scrubbed, the placeholder
LifecycleDocs ==
  {DocOf(x, y) : x \in {Str("s1"), Placeholder}, y \in {Undefined, Str("s2"), Placeholder}}

LifecycleBackends ==
  UNION {[S -> BackendSecrets] :
           S \in SUBSET (LifecycleKeyNames \cup {pathToKeychainName(WhisperPath)})}

InitLifecycle ==
  /\ disk \in LifecycleDocs
  /\ bak = Undefined
  /\ backend \in LifecycleBackends
  /\ secretMap \in LifecycleMaps
  /\ doc0 = disk
  /\ backend0 = backend
  /\ last = Done("none", TRUE, <<>>, <<>>, <<>>, 0)
  /\ prev = last
  /\ hist = <<>>
  /\ Idle
  /\ mig = NotMigrating
  /\ NoDiscovery
  /\ NoCli
  /\ NoCall

\* a command is started when no migrate is under way; a migrate under way goes on
NextLifecycle ==
  \/ mig.pc = "idle" /\ \E failAt \in 0..Len(secretMap) : StoreKeys(failAt)
  \/ mig.pc = "idle" /\ RestoreKeys
  \/ mig.pc = "idle" /\ ScrubKeys
  \/ mig.pc = "idle" /\ CheckKeys
  \/ NextMigrate

SpecLifecycle == InitLifecycle /\ [][NextLifecycle]_vars

\* C28: the backend never comes to hold the placeholder as a secret value: from a
\* backend in which no key holds it, after any sequence of store, restore, scrub,
\* check and migrate calls no backend key holds the placeholder.
C28_NoPlaceholderInBackend ==
  \A k \in DOMAIN backend : backend[k] # KEYCHAIN_PLACEHOLDER

\* C28: store has run, after a migrate, on a document that holds the placeholder at a
\* map path, and the backend holds a value.
C28_Witness ==
  /\ hist = <<"migrate", "store">>
  /\ last.ok
  /\ \E i \in DOMAIN secretMap : getByPath(last.pre.disk, secretMap[i].configPath) = Placeholder
  /\ \E i \in DOMAIN last.results : last.results[i].reason = "Already stored in backend"
  /\ DOMAIN backend # {}
  /\ DOMAIN last.pre.backend # DOMAIN backend0


\* C29: when a signal arrives while restore is in progress inside start and the
\* cleanup hook's scrub has written the document, the process exits by the hook with
\* the on-disk document holding only the placeholder at the map paths: every config
\* path of the map resolves to the placeholder or to nothing.
C29_ExitsScrubbedAfterSignalInRestore ==
  (exited = "1" /\ sig = "exit" /\ hist = <<>> /\ hook.wrote /\ hook.inRestore)
    => \A i \in DOMAIN secretMap :
         getByPath(disk, secretMap[i].configPath) \in {Placeholder, Undefined}


\* C30: migrate never loses a legacy secret, even when it is cut short: in every
\* state of a migrate run, of a run cut short at a backend call and of the run made
\* after it, each legacy entry whose old name held a value at the start has a value
\* under its old name or under its new name.
C30_MigrateNeverLoses ==
  \A i \in DOMAIN LEGACY_KEY_NAMES :
    LEGACY_KEY_NAMES[i].oldName \in DOMAIN backend0
      => \/ LEGACY_KEY_NAMES[i].oldName \in DOMAIN backend
         \/ pathToKeychainName(LEGACY_KEY_NAMES[i].configPath) \in DOMAIN backend

\* C30: a migrate was cut short right after it had written a new name, before the
\* old name was deleted; the migrate run again has completed, and an entry that
\* held a value under its old name at the start now holds one under its new name
\* only.
C30_Witness ==
  /\ hist = <<"migrateCut", "migrate">>
  /\ last.ok
  /\ prev.calls # <<>>
  /\ prev.calls[Len(prev.calls)].m = "set"
  /\ \E i \in DOMAIN LEGACY_KEY_NAMES :
       /\ LEGACY_KEY_NAMES[i].oldName \in DOMAIN backend0
       /\ LEGACY_KEY_NAMES[i].oldName \notin DOMAIN backend
       /\ pathToKeychainName(LEGACY_KEY_NAMES[i].configPath) \in DOMAIN backend

====
